---- MODULE Spec2Model ----
(***************************************************************************)
(* A model of the coordination substrate of the Arc agent runtime:         *)
(*   - the scheduler engine (src/arc/scheduler/engine.py, store.py,        *)
(*     triggers.py),                                                       *)
(*   - the security engine and its approval flow (src/arc/security),       *)
(*   - the skill manager (src/arc/skills/manager.py),                      *)
(*   - the agent loop (src/arc/agent/loop.py).                             *)
(* Each subsystem has its own variables, initial condition and next-state  *)
(* relation; a specification runs one subsystem and leaves the variables   *)
(* of the others unchanged.                                                *)
(***************************************************************************)
EXTENDS Integers, Sequences, FiniteSets, TLC

\* ------------------------------------------------------------------------
\* Bounds of the model
\* ------------------------------------------------------------------------

\* Seconds the wall clock advances in one step of the model.
ClockStep == 10

\* The wall clock stops advancing at this time.
MaxTime == 70

\* At most this many _fire_job tasks are created in one behaviour.
MaxFires == 3

\* At most this many _fire_job tasks are created in one run of a process
\* that is restarted.
MaxRunFires == 2

\* Period of the interval job and fire time of the one-shot job.
IntervalSeconds == 20

OneshotAt == 20

\* At most this many approval requests are created in one behaviour.
MaxRequests == 2

\* The agent's max_iterations is drawn from 1..MaxIterations.
MaxIterations == 2

\* The event bus holds at most MaxSubscriptions subscriptions and
\* MaxMiddleware middlewares.
MaxSubscriptions == 2

MaxMiddleware == 3

\* The CLI session gets at most MaxNotifications notifications and
\* MaxTurns user messages.
MaxNotifications == 3

MaxTurns == 2

\* At most MaxWorkers tasks are delegated to background workers.
MaxWorkers == 2

\* The agent registry sees at most MaxTasks worker tasks and MaxShutdowns
\* calls of shutdown_all.
MaxTasks == 3

MaxShutdowns == 2

\* At most this many ask_manager calls are made in one behaviour.
MaxEscalations == 2

\* At most this many resolve_escalation calls are made in one behaviour.
MaxResolves == 3

\* At most this many start() and stop() calls are made on the kernel in one
\* behaviour.
MaxKernelCalls == 5

\* At most this many send_message calls are made on the virtual platform in
\* one behaviour.
MaxMessages == 3

\* The session given to compose holds at most this many messages, a message
\* counts at most MaxMessageTokens tokens and the budget is at most
\* MaxBudget.
MaxSessionLen == 4

MaxMessageTokens == 3

MaxBudget == 8

\* ------------------------------------------------------------------------
\* Scheduler: state
\* ------------------------------------------------------------------------

VARIABLES
    now,        \* time.time(), in whole seconds
    store,      \* the jobs table: job id -> row
    in_flight,  \* SchedulerEngine._in_flight
    tickPc,     \* position of _loop/_tick: "sleep", "read", "resume"
    tickNow,    \* the `now` _tick passed to get_due_jobs
    due_jobs,   \* the rows get_due_jobs returned to the tick in progress
    wakeAt,     \* time at which the asyncio.sleep of _loop ends
    fires       \* every _fire_job task created so far, in creation order

schedVars == <<now, store, in_flight, tickPc, tickNow, due_jobs, wakeAt, fires>>

VARIABLES
    sched_running,  \* SchedulerEngine._running: the polling loop exists
    startedAt       \* history: the time of the last startup pass

engineVars == <<sched_running, startedAt>>

POLL_INTERVAL == 30

JobIds == {"j1", "j2"}

\* Job.trigger of each stored job (never rewritten by the engine).
JobTrigger(j) ==
    IF j = "j1" THEN [type |-> "interval", seconds |-> IntervalSeconds, at |-> 0]
                ELSE [type |-> "oneshot", seconds |-> 0, at |-> OneshotAt]

NoRow == [exists |-> FALSE, next_run |-> 0, last_run |-> 0, active |-> FALSE]

\* IntervalTrigger.next_fire_time
IntervalNext(seconds, last_run, t) ==
    IF last_run = 0 THEN t ELSE last_run + seconds

\* OneshotTrigger.next_fire_time
OneshotNext(at, last_run, t) ==
    IF last_run > 0 \/ t > at THEN 0 ELSE at

\* make_trigger(trigger).next_fire_time(last_run, now)
NextFireTime(trigger, last_run, t) ==
    IF trigger.type = "interval"
    THEN IntervalNext(trigger.seconds, last_run, t)
    ELSE OneshotNext(trigger.at, last_run, t)

\* SchedulerStore._get_due_sync: the ids of the rows selected at time t,
\* each with the next_run the row held when it was read.
DueJobs(st, t) ==
    { [id |-> j, next_run |-> st[j].next_run] :
        j \in { k \in JobIds : /\ st[k].exists
                               /\ st[k].active
                               /\ st[k].next_run > 0
                               /\ st[k].next_run <= t } }

\* SchedulerStore._update_after_run_sync
UpdateAfterRun(st, j, next_run, last_run) ==
    IF st[j].exists
    THEN [st EXCEPT ![j] = [exists |-> TRUE, next_run |-> next_run,
                            last_run |-> last_run, active |-> next_run > 0]]
    ELSE st

\* SchedulerStore._delete_sync
DeleteJob(st, j) == [st EXCEPT ![j] = NoRow]

\* The guard a _fire_job task holds from its creation in _tick until its
\* discard of the job id.
GuardedPcs == {"spawned", "running", "persisting", "persisted"}

SchedInit ==
    /\ now = ClockStep
    /\ store = [j \in JobIds |->
                  [exists |-> TRUE,
                   next_run |-> IF j = "j1" THEN ClockStep + IntervalSeconds
                                            ELSE OneshotAt,
                   last_run |-> 0, active |-> TRUE]]
    /\ in_flight = {}
    /\ tickPc = "sleep"
    /\ tickNow = 0
    /\ due_jobs = {}
    /\ wakeAt = ClockStep
    /\ fires = <<>>

\* ------------------------------------------------------------------------
\* Scheduler: actions
\* ------------------------------------------------------------------------

\* The wall clock advances.
Advance ==
    /\ now + ClockStep <= MaxTime
    /\ now' = now + ClockStep
    /\ UNCHANGED <<store, in_flight, tickPc, tickNow, due_jobs, wakeAt, fires>>

\* _loop wakes from its sleep and _tick reads the clock and submits
\* get_due_jobs to the executor.
TickStart ==
    /\ sched_running
    /\ tickPc = "sleep"
    /\ now >= wakeAt
    /\ tickPc' = "read"
    /\ tickNow' = now
    /\ UNCHANGED <<now, store, in_flight, due_jobs, wakeAt, fires>>

\* The executor thread runs _get_due_sync.
TickRead ==
    /\ tickPc = "read"
    /\ due_jobs' = DueJobs(store, tickNow)
    /\ tickPc' = "resume"
    /\ UNCHANGED <<now, store, in_flight, tickNow, wakeAt, fires>>

\* The fires _tick creates for the rows it was handed: one per row whose id
\* is not in the in-flight set, appended in some order.
RECURSIVE SpawnAll(_, _)
SpawnAll(fs, rows) ==
    IF rows = {} THEN fs
    ELSE LET r == CHOOSE x \in rows : TRUE
         IN  SpawnAll(Append(fs, [job |-> r.id, due |-> r.next_run,
                                  now |-> 0, pc |-> "spawned",
                                  error |-> FALSE]),
                      rows \ {r})

\* _tick resumes with the rows, runs its for loop and _loop goes to sleep.
TickResume ==
    /\ tickPc = "resume"
    /\ LET fresh == { r \in due_jobs : r.id \notin in_flight }
       IN  /\ Len(fires) + Cardinality(fresh) <= MaxFires
           /\ in_flight' = in_flight \cup { r.id : r \in fresh }
           /\ fires' = SpawnAll(fires, fresh)
    /\ tickPc' = "sleep"
    /\ wakeAt' = now + POLL_INTERVAL
    /\ due_jobs' = {}
    /\ UNCHANGED <<now, store, tickNow>>

\* A _fire_job task starts: it reads the clock and begins running the job.
FireStart(i) ==
    /\ fires[i].pc = "spawned"
    /\ fires' = [fires EXCEPT ![i].pc = "running", ![i].now = now]
    /\ UNCHANGED <<now, store, in_flight, tickPc, tickNow, due_jobs, wakeAt>>

\* FireRun with the discard of the job id moved before the store update.
FireRunReleasingEarly(i) ==
    /\ fires[i].pc = "running"
    /\ \E failed \in BOOLEAN :
          fires' = [fires EXCEPT ![i].pc = "persisting", ![i].error = failed]
    /\ in_flight' = in_flight \ {fires[i].job}
    /\ UNCHANGED <<now, store, tickPc, tickNow, due_jobs, wakeAt>>

\* The job's run ends, with content or, after an LLM error, a sub-agent
\* timeout or an exception caught by the try, with "(job failed: ...)" and
\* error set; the completion event is emitted and the store update is
\* submitted to the executor.
FireRun(i) ==
    /\ fires[i].pc = "running"
    /\ \E failed \in BOOLEAN :
          fires' = [fires EXCEPT ![i].pc = "persisting", ![i].error = failed]
    /\ UNCHANGED <<now, store, in_flight, tickPc, tickNow, due_jobs, wakeAt>>

\* FirePersist leaving the store alone after a failed run.
FirePersistSkippingFailed(i) ==
    /\ fires[i].pc = "persisting"
    /\ LET f == fires[i]
           next_run == NextFireTime(JobTrigger(f.job), f.now, f.now)
       IN  store' = IF f.error THEN store
                    ELSE IF next_run = 0
                    THEN DeleteJob(store, f.job)
                    ELSE UpdateAfterRun(store, f.job, next_run, f.now)
    /\ fires' = [fires EXCEPT ![i].pc = "persisted"]
    /\ UNCHANGED <<now, in_flight, tickPc, tickNow, due_jobs, wakeAt>>

\* The executor thread deletes the job or writes its next_run and last_run.
FirePersist(i) ==
    /\ fires[i].pc = "persisting"
    /\ LET f == fires[i]
           next_run == NextFireTime(JobTrigger(f.job), f.now, f.now)
       IN  store' = IF next_run = 0
                    THEN DeleteJob(store, f.job)
                    ELSE UpdateAfterRun(store, f.job, next_run, f.now)
    /\ fires' = [fires EXCEPT ![i].pc = "persisted"]
    /\ UNCHANGED <<now, in_flight, tickPc, tickNow, due_jobs, wakeAt>>

\* The task resumes after the store call and discards the job id.
FireRelease(i) ==
    /\ fires[i].pc = "persisted"
    /\ in_flight' = in_flight \ {fires[i].job}
    /\ fires' = [fires EXCEPT ![i].pc = "routing"]
    /\ UNCHANGED <<now, store, tickPc, tickNow, due_jobs, wakeAt>>

\* router.route(notification) returns and the task ends.
FireRoute(i) ==
    /\ fires[i].pc = "routing"
    /\ fires' = [fires EXCEPT ![i].pc = "done"]
    /\ UNCHANGED <<now, store, in_flight, tickPc, tickNow, due_jobs, wakeAt>>

\* The task of a fire is cancelled, by cancel_worker or shutdown_all on
\* "scheduler:<name>", before its discard of the job id: the CancelledError
\* passes the except clause of _fire_job and ends the task.
FireCancelled(i) ==
    /\ fires[i].pc \in {"spawned", "running", "persisted"}
    /\ fires' = [fires EXCEPT ![i].pc = "cancelled"]
    /\ UNCHANGED <<now, store, in_flight, tickPc, tickNow, due_jobs, wakeAt>>

\* The emit of the completion event or the store call raises: the
\* exception ends the task.
FireRaises(i) ==
    /\ fires[i].pc = "persisting"
    /\ fires' = [fires EXCEPT ![i].pc = "raised"]
    /\ UNCHANGED <<now, store, in_flight, tickPc, tickNow, due_jobs, wakeAt>>

\* ------------------------------------------------------------------------
\* Security engine and approval flow: state
\* ------------------------------------------------------------------------

VARIABLES
    never_allow,      \* SecurityConfig.never_allow
    auto_allow,       \* SecurityConfig.auto_allow
    always_ask,       \* SecurityConfig.always_ask
    capOrder,         \* iteration order of each tool's required_capabilities
    remembered,       \* SecurityEngine._remembered
    pending,          \* the request ids in ApprovalFlow._pending
    future,           \* the future of each request id: "unborn", "pending", a
                      \* response, "cancelled", or "dropped" with its request
    request_counter,  \* ApprovalFlow._request_counter
    call,             \* the check_and_approve call of each caller
    always_answered,  \* tools whose approval was answered allow_always/deny_always
    resolves,         \* parity of the number of resolve_approval calls so far
    lastResolve,      \* the latest resolve_approval call: its request id, what
                      \* it found ("unknown" id, "undone" or "done" future) and
                      \* what it returned
    accepted          \* per request id whose call has not been taken yet, the
                      \* responses resolve_approval accepted, in order

secVars == <<never_allow, auto_allow, always_ask, capOrder, remembered, pending,
             future, request_counter, call, always_answered, resolves,
             lastResolve, accepted>>

Caps == {"file:read", "file:write"}

ToolNames == {"get_time", "read_file", "write_file"}

\* ToolSpec.required_capabilities
ToolCaps(tool) ==
    CASE tool = "get_time" -> {}
      [] tool = "read_file" -> {"file:read"}
      [] tool = "write_file" -> {"file:read", "file:write"}

\* The tasks that call check_and_approve on this engine: the main agent
\* (background agents get a permissive engine of their own).
Callers == {"main"}

RequestIds == 1..MaxRequests

\* What a platform may pass to resolve_approval.
Responses == {"allow_once", "allow_always", "deny", "deny_always",
              "DENY_ALWAYS ", "yes"}

\* response.lower().strip()
Normalize(response) ==
    IF response = "DENY_ALWAYS " THEN "deny_always" ELSE response

\* SecurityDecision
Decision(allowed, reason, requires_approval, user_response, is_remembered) ==
    [allowed |-> allowed, reason |-> reason,
     requires_approval |-> requires_approval,
     user_response |-> user_response, remembered |-> is_remembered]

NoDecision == Decision(FALSE, <<"none">>, FALSE, "none", FALSE)

TimeoutDenial == Decision(FALSE, <<"approval_timeout">>, FALSE, "none", FALSE)

\* ApprovalFlow._response_to_decision
ResponseToDecision(response) ==
    LET r == Normalize(response)
    IN  IF r = "allow_once"
        THEN Decision(TRUE, <<"user:approved_once">>, FALSE, "allow_once", FALSE)
        ELSE IF r = "allow_always"
        THEN Decision(TRUE, <<"user:approved_always">>, FALSE, "allow_always", TRUE)
        ELSE IF r = "deny_always"
        THEN Decision(FALSE, <<"user:denied_always">>, FALSE, "deny_always", TRUE)
        ELSE Decision(FALSE, <<"user:denied">>, FALSE, "deny", FALSE)

\* _check_capability with the auto_allow layer consulted before the
\* remembered decisions.
CheckCapabilityAutoFirst(tool, c) ==
    IF c \in never_allow
    THEN Decision(FALSE, <<"policy:never_allow", c>>, FALSE, "none", FALSE)
    ELSE IF c \in auto_allow
    THEN Decision(TRUE, <<"policy:auto_allow", c>>, FALSE, "none", FALSE)
    ELSE IF remembered[<<tool, c>>] = "allow_always"
    THEN Decision(TRUE, <<"user:remembered_allow", c>>, FALSE, "none", TRUE)
    ELSE IF remembered[<<tool, c>>] = "deny_always"
    THEN Decision(FALSE, <<"user:remembered_deny", c>>, FALSE, "none", TRUE)
    ELSE IF c \in always_ask
    THEN Decision(FALSE, <<"policy:always_ask", c>>, TRUE, "none", FALSE)
    ELSE Decision(FALSE, <<"policy:unknown_capability", c>>, TRUE, "none", FALSE)

\* SecurityEngine._check_capability
CheckCapability(tool, c) ==
    IF c \in never_allow
    THEN Decision(FALSE, <<"policy:never_allow", c>>, FALSE, "none", FALSE)
    ELSE IF remembered[<<tool, c>>] = "allow_always"
    THEN Decision(TRUE, <<"user:remembered_allow", c>>, FALSE, "none", TRUE)
    ELSE IF remembered[<<tool, c>>] = "deny_always"
    THEN Decision(FALSE, <<"user:remembered_deny", c>>, FALSE, "none", TRUE)
    ELSE IF c \in auto_allow
    THEN Decision(TRUE, <<"policy:auto_allow", c>>, FALSE, "none", FALSE)
    ELSE IF c \in always_ask
    THEN Decision(FALSE, <<"policy:always_ask", c>>, TRUE, "none", FALSE)
    ELSE Decision(FALSE, <<"policy:unknown_capability", c>>, TRUE, "none", FALSE)

\* The sequences that list every element of S exactly once.
Orderings(S) ==
    { o \in [1..Cardinality(S) -> S] : \A x \in S : \E i \in DOMAIN o : o[i] = x }

\* SecurityEngine.check_tool
CheckTool(tool) ==
    IF ToolCaps(tool) = {}
    THEN Decision(TRUE, <<"no_capabilities_required">>, FALSE, "none", FALSE)
    ELSE LET order == capOrder[tool]
             d(i) == CheckCapability(tool, order[i])
             stops == { i \in DOMAIN order :
                          ~d(i).allowed \/ d(i).requires_approval }
         IN  IF stops # {}
             THEN d(CHOOSE i \in stops : \A m \in stops : i <= m)
             ELSE d(Len(order))

\* SecurityEngine.remember_decision, for every capability of the tool
RememberAll(rem, tool, decision) ==
    [key \in DOMAIN rem |->
        IF key[1] = tool /\ key[2] \in ToolCaps(tool) THEN decision ELSE rem[key]]

IdleCall == [pc |-> "idle", tool |-> "get_time", req |-> 0,
             decision |-> NoDecision, emitted |-> FALSE, after |-> FALSE]

\* The state shared by every initial state of the security engine.
SecFresh ==
    /\ remembered = [key \in ToolNames \X Caps |-> "none"]
    /\ pending = {}
    /\ future = [id \in RequestIds |-> "unborn"]
    /\ request_counter = 0
    /\ call = [k \in Callers |-> IdleCall]
    /\ always_answered = {}
    /\ resolves = 0
    /\ lastResolve = [id |-> 0, saw |-> "unknown", ret |-> FALSE]
    /\ accepted = [id \in RequestIds |-> <<>>]

\* A security engine built from any configuration.
SecInit ==
    /\ never_allow \in SUBSET Caps
    /\ auto_allow \in SUBSET Caps
    /\ always_ask \in SUBSET Caps
    /\ capOrder \in { f \in [ToolNames -> UNION { Orderings(ToolCaps(t)) : t \in ToolNames }] :
                        \A t \in ToolNames : f[t] \in Orderings(ToolCaps(t)) }
    /\ SecFresh

\* The security engine of the default SecurityConfig.
SecDefault ==
    /\ never_allow = {}
    /\ auto_allow = {"file:read"}
    /\ always_ask = {"file:write"}
    /\ capOrder = [t \in ToolNames |->
                     CHOOSE o \in Orderings(ToolCaps(t)) : TRUE]
    /\ SecFresh

\* ------------------------------------------------------------------------
\* Security engine and approval flow: actions
\* ------------------------------------------------------------------------

\* check_and_approve up to its first suspension: the policy check and, when
\* approval is required, request_approval up to its wait on the future.
CheckAndApproveStart(k, tool) ==
    /\ call[k].pc = "idle"
    /\ LET d == CheckTool(tool)
           id == request_counter + 1
       IN  IF d.allowed \/ ~d.requires_approval
           THEN /\ call' = [call EXCEPT ![k] =
                      [pc |-> "returned", tool |-> tool, req |-> 0,
                       decision |-> d, emitted |-> FALSE,
                       after |-> tool \in always_answered]]
                /\ UNCHANGED <<pending, future, request_counter>>
           ELSE /\ request_counter < MaxRequests
                /\ request_counter' = id
                /\ pending' = pending \cup {id}
                /\ future' = [future EXCEPT ![id] = "pending"]
                /\ call' = [call EXCEPT ![k] =
                      [pc |-> "waiting", tool |-> tool, req |-> id,
                       decision |-> NoDecision, emitted |-> TRUE,
                       after |-> tool \in always_answered]]
    /\ UNCHANGED <<never_allow, auto_allow, always_ask, capOrder, remembered,
                   always_answered, resolves, lastResolve, accepted>>

\* resolve_approval without the test that the future is still undone.
ResolveApprovalOverwriting(id, response) ==
    /\ resolves' = 1 - resolves
    /\ IF id \notin pending
       THEN /\ lastResolve' = [id |-> id, saw |-> "unknown", ret |-> FALSE]
            /\ UNCHANGED <<future, accepted>>
       ELSE /\ future' = [future EXCEPT ![id] = response]
            /\ accepted' = [accepted EXCEPT ![id] = Append(@, response)]
            /\ lastResolve' = [id |-> id, ret |-> TRUE,
                               saw |-> IF future[id] = "pending"
                                       THEN "undone" ELSE "done"]
    /\ UNCHANGED <<never_allow, auto_allow, always_ask, capOrder, remembered,
                   pending, request_counter, call, always_answered>>

\* ApprovalFlow.resolve_approval
ResolveApproval(id, response) ==
    /\ resolves' = 1 - resolves
    /\ IF id \notin pending
       THEN /\ lastResolve' = [id |-> id, saw |-> "unknown", ret |-> FALSE]
            /\ UNCHANGED <<future, accepted>>
       ELSE IF future[id] = "pending"
       THEN /\ future' = [future EXCEPT ![id] = response]
            /\ accepted' = [accepted EXCEPT ![id] = Append(@, response)]
            /\ lastResolve' = [id |-> id, saw |-> "undone", ret |-> TRUE]
       ELSE /\ lastResolve' = [id |-> id, saw |-> "done", ret |-> FALSE]
            /\ UNCHANGED <<future, accepted>>
    /\ UNCHANGED <<never_allow, auto_allow, always_ask, capOrder, remembered,
                   pending, request_counter, call, always_answered>>

\* The timeout of asyncio.wait_for expires: the future is cancelled and the
\* waiting task is woken with TimeoutError.
ApprovalTimeout(k) ==
    /\ call[k].pc = "waiting"
    /\ future[call[k].req] = "pending"
    /\ future' = [future EXCEPT ![call[k].req] = "cancelled"]
    /\ call' = [call EXCEPT ![k].pc = "timed_out"]
    /\ UNCHANGED <<never_allow, auto_allow, always_ask, capOrder, remembered,
                   pending, request_counter, always_answered, resolves,
                   lastResolve, accepted>>

\* request_approval handles TimeoutError without popping the pending entry.
TimeoutResumeKeepingPending(k) ==
    /\ call[k].pc = "timed_out"
    /\ call' = [call EXCEPT ![k].pc = "returned", ![k].decision = TimeoutDenial]
    /\ UNCHANGED <<never_allow, auto_allow, always_ask, capOrder, remembered,
                   pending, future, request_counter, always_answered, resolves,
                   lastResolve, accepted>>

\* request_approval handles TimeoutError: it pops the pending entry and
\* check_and_approve returns the denial.
TimeoutResume(k) ==
    /\ call[k].pc = "timed_out"
    /\ pending' = pending \ {call[k].req}
    /\ future' = [future EXCEPT ![call[k].req] = "dropped"]
    /\ call' = [call EXCEPT ![k].pc = "returned", ![k].decision = TimeoutDenial]
    /\ UNCHANGED <<never_allow, auto_allow, always_ask, capOrder, remembered,
                   request_counter, always_answered, resolves, lastResolve,
                   accepted>>

\* The waiting task resumes with the response: request_approval pops the
\* pending entry and converts the response, check_and_approve remembers an
\* "always" answer for every capability of the tool and returns.
ApprovalResume(k) ==
    /\ call[k].pc = "waiting"
    /\ future[call[k].req] \in Responses
    /\ LET d == ResponseToDecision(future[call[k].req])
           remember == d.remembered /\ d.user_response # "none"
       IN  /\ pending' = pending \ {call[k].req}
           /\ future' = [future EXCEPT ![call[k].req] = "dropped"]
           /\ remembered' = IF remember
                            THEN RememberAll(remembered, call[k].tool, d.user_response)
                            ELSE remembered
           /\ always_answered' = IF remember
                                 THEN always_answered \cup {call[k].tool}
                                 ELSE always_answered
           /\ call' = [call EXCEPT ![k].pc = "returned", ![k].decision = d]
    /\ UNCHANGED <<never_allow, auto_allow, always_ask, capOrder,
                   request_counter, resolves, lastResolve, accepted>>

\* The caller takes the decision; it may call check_and_approve again.
TakeDecision(k) ==
    /\ call[k].pc = "returned"
    /\ call' = [call EXCEPT ![k] = IdleCall]
    /\ accepted' = [id \in RequestIds |->
                      IF id = call[k].req THEN <<>> ELSE accepted[id]]
    /\ UNCHANGED <<never_allow, auto_allow, always_ask, capOrder, remembered,
                   pending, future, request_counter, always_answered, resolves,
                   lastResolve>>

\* The task awaiting request_approval is cancelled: wait_for passes the
\* cancellation on to the request's future.
ApprovalWaitCancelled(k) ==
    /\ call[k].pc = "waiting"
    /\ future[call[k].req] = "pending"
    /\ future' = [future EXCEPT ![call[k].req] = "cancelled"]
    /\ call' = [call EXCEPT ![k].pc = "cancelling"]
    /\ UNCHANGED <<never_allow, auto_allow, always_ask, capOrder, remembered,
                   pending, request_counter, always_answered, resolves,
                   lastResolve, accepted>>

\* The cancelled task resumes in request_approval: its finally pops the
\* pending entry and the CancelledError goes up.
ApprovalCancelResume(k) ==
    /\ call[k].pc = "cancelling"
    /\ pending' = pending \ {call[k].req}
    /\ call' = [call EXCEPT ![k].pc = "cancelled"]
    /\ UNCHANGED <<never_allow, auto_allow, always_ask, capOrder, remembered,
                   future, request_counter, always_answered, resolves,
                   lastResolve, accepted>>

\* ------------------------------------------------------------------------
\* Skill manager: state
\* ------------------------------------------------------------------------

VARIABLES
    activated,     \* SkillManager._activated
    activations,   \* per skill, how many activate() calls have completed
    skCall         \* the SkillManager.execute_tool call of each agent

skillVars == <<activated, activations, skCall>>

\* SkillManager._skills after registration
SkillNames == {"filesystem", "clock"}

\* The agents that share the one SkillManager.
SkillAgents == {"main", "worker"}

\* SkillManager._tool_to_skill after registration; "none" for an unknown tool
ToolToSkill(tool) ==
    CASE tool \in {"read_file", "write_file"} -> "filesystem"
      [] tool = "get_time" -> "clock"
      [] OTHER -> "none"

\* What the LLM may name in a tool call.
CallableNames == ToolNames \cup {"no_such_tool"}

IdleSkillCall == [pc |-> "idle", tool |-> "get_time", success |-> FALSE]

SkillInit ==
    /\ activated = {}
    /\ activations = [s \in SkillNames |-> 0]
    /\ skCall = [a \in SkillAgents |-> IdleSkillCall]

\* ------------------------------------------------------------------------
\* Skill manager: actions
\* ------------------------------------------------------------------------

\* execute_tool up to its first suspension: the lookup of the owning skill
\* and _ensure_activated's test of the activated set.
ExecuteToolStart(a, tool) ==
    /\ skCall[a].pc = "idle"
    /\ LET skill == ToolToSkill(tool)
       IN  skCall' = [skCall EXCEPT ![a] =
               [pc |-> IF skill = "none" THEN "returned"
                       ELSE IF skill \notin activated THEN "activating"
                       ELSE "executing",
                tool |-> tool, success |-> FALSE]]
    /\ UNCHANGED <<activated, activations>>

\* skill.activate() returns: the skill is marked activated and
\* skill.execute_tool is called.
ActivateDone(a) ==
    /\ skCall[a].pc = "activating"
    /\ activated' = activated \cup {ToolToSkill(skCall[a].tool)}
    /\ activations' = [activations EXCEPT ![ToolToSkill(skCall[a].tool)] = @ + 1]
    /\ skCall' = [skCall EXCEPT ![a].pc = "executing"]

\* skill.activate() raises: execute_tool returns a failure ToolResult.
ActivateFail(a) ==
    /\ skCall[a].pc = "activating"
    /\ skCall' = [skCall EXCEPT ![a].pc = "returned", ![a].success = FALSE]
    /\ UNCHANGED <<activated, activations>>

\* skill.execute_tool returns a result or raises (a failure ToolResult).
ExecuteDone(a, ok) ==
    /\ skCall[a].pc = "executing"
    /\ skCall' = [skCall EXCEPT ![a].pc = "returned", ![a].success = ok]
    /\ UNCHANGED <<activated, activations>>

\* The caller takes the ToolResult.
TakeResult(a) ==
    /\ skCall[a].pc = "returned"
    /\ skCall' = [skCall EXCEPT ![a] = IdleSkillCall]
    /\ UNCHANGED <<activated, activations>>

\* ------------------------------------------------------------------------
\* Agent loop: state
\* ------------------------------------------------------------------------

VARIABLES
    agPc,             \* position of AgentLoop.run
    iteration,        \* AgentLoop._iteration
    max_iterations,   \* AgentConfig.max_iterations
    excluded_skills,  \* AgentConfig.excluded_skills
    toolQueue,        \* collected_tool_calls of the current LLM response
    toolIdx,          \* index in toolQueue of the tool call being executed
    events,           \* the events the agent emitted, in order
    memory,           \* SessionMemory.messages
    llmCalls,         \* the llm.generate calls made, with the answer of each
    yielded           \* the chunks run() yielded to its caller

agentVars == <<agPc, iteration, max_iterations, excluded_skills, toolQueue,
               toolIdx, events, memory, llmCalls, yielded>>

\* The tool-call lists an LLM response may carry.
ToolCallLists == {<<"read_file">>, <<"no_such_tool">>,
                  <<"write_file", "get_time">>}

\* The answers of the LLM to a generate call: its stop reason, whether it
\* streamed text, and its tool calls.  A provider ends a response that
\* carries tool calls with tool_use and any other response with complete.
LlmAnswers ==
    { [stop |-> "tool_use", text |-> FALSE, calls |-> l] : l \in ToolCallLists }
    \cup { [stop |-> "complete", text |-> TRUE, calls |-> <<>>] }

\* The `tools` argument of the generate call in the loop: the specs of the
\* skills that are not excluded, None when there are none.
LoopTools ==
    LET all_specs == ToolNames
        tool_specs == IF excluded_skills # {}
                      THEN { t \in all_specs : ToolToSkill(t) \notin excluded_skills }
                      ELSE all_specs
    IN  IF tool_specs # {} THEN tool_specs ELSE {"None"}

\* The ToolCall objects of the n-th LLM response: each has the id the
\* provider drew for it and the name of the tool.
ToolCalls(names, n) ==
    [p \in 1..Len(names) |-> [id |-> <<n, p>>, name |-> names[p]]]

\* The tool_call_id of a message or a result that has none.
NoId == <<>>

\* Message of SessionMemory
Message(role, name, calls, content, tool_call_id) ==
    [role |-> role, name |-> name, calls |-> calls, content |-> content,
     tool_call_id |-> tool_call_id]

\* ToolResult
ToolResult(tool_call_id, success, error) ==
    [tool_call_id |-> tool_call_id, success |-> success, error |-> error]

\* SessionMemory.add_tool_result
ToolMessage(result, name) ==
    Message("tool", name, <<>>,
            IF result.success THEN <<"output">> ELSE <<"Error">> \o result.error,
            result.tool_call_id)

AgentInit ==
    /\ agPc = "idle"
    /\ iteration = 0
    /\ max_iterations \in 1..MaxIterations
    /\ excluded_skills \in {{}, {"clock"}}
    /\ toolQueue = <<>>
    /\ toolIdx = 0
    /\ events = <<>>
    /\ memory = <<>>
    /\ llmCalls = <<>>
    /\ yielded = <<>>

\* An agent that is never run.
AgentIdle ==
    /\ agPc = "idle"
    /\ iteration = 0
    /\ max_iterations = 1
    /\ excluded_skills = {}
    /\ toolQueue = <<>>
    /\ toolIdx = 0
    /\ events = <<>>
    /\ memory = <<>>
    /\ llmCalls = <<>>
    /\ yielded = <<>>

\* ------------------------------------------------------------------------
\* Agent loop: actions
\* ------------------------------------------------------------------------

\* run(user_input) up to the loop: the user message and agent:start.
RunStart ==
    /\ agPc = "idle"
    /\ memory' = Append(memory, Message("user", "", <<>>, <<"input">>, NoId))
    /\ iteration' = 0
    /\ events' = Append(events, <<"agent:start">>)
    /\ agPc' = "loop"
    /\ UNCHANGED <<max_iterations, excluded_skills, toolQueue, toolIdx,
                   llmCalls, yielded>>
    /\ UNCHANGED <<secVars, skillVars>>

\* The loop test with `<=` in place of `<`.
LoopContinuesOffByOne == iteration <= max_iterations

\* while self._iteration < self._config.max_iterations
LoopContinues == iteration < max_iterations

\* One pass of the loop up to the call of llm.generate with the tool list.
LoopIterate ==
    /\ agPc = "loop"
    /\ LoopContinues
    /\ iteration' = iteration + 1
    /\ events' = Append(events, <<"agent:thinking">>)
    /\ llmCalls' = Append(llmCalls, [tools |-> LoopTools, stop |-> "pending",
                                     text |-> FALSE, calls |-> <<>>])
    /\ agPc' = "llm"
    /\ UNCHANGED <<max_iterations, excluded_skills, toolQueue, toolIdx,
                   memory, yielded>>
    /\ UNCHANGED <<secVars, skillVars>>

\* LoopExhausted announcing the final call with agent:thinking.
LoopExhaustedThinking ==
    /\ agPc = "loop"
    /\ ~LoopContinues
    /\ yielded' = Append(yielded, "separator")
    /\ llmCalls' = Append(llmCalls, [tools |-> {"None"}, stop |-> "pending",
                                     text |-> FALSE, calls |-> <<>>])
    /\ agPc' = "synthesis"
    /\ UNCHANGED <<iteration, max_iterations, excluded_skills, toolQueue,
                   toolIdx, memory>>
    /\ events' = Append(events, <<"agent:thinking">>)
    /\ UNCHANGED <<secVars, skillVars>>

\* The loop ended on its bound: the separator is yielded and
\* _synthesise_on_limit calls llm.generate with tools=None.
LoopExhausted ==
    /\ agPc = "loop"
    /\ ~LoopContinues
    /\ yielded' = Append(yielded, "separator")
    /\ llmCalls' = Append(llmCalls, [tools |-> {"None"}, stop |-> "pending",
                                     text |-> FALSE, calls |-> <<>>])
    /\ agPc' = "synthesis"
    /\ UNCHANGED <<iteration, max_iterations, excluded_skills, toolQueue,
                   toolIdx, events, memory>>
    /\ UNCHANGED <<secVars, skillVars>>

\* The LLM's answer in the loop has streamed: its text is yielded,
\* llm:response is emitted, and the run completes or turns to the tool calls.
LlmAnswer(ans) ==
    /\ agPc = "llm"
    /\ llmCalls' = [llmCalls EXCEPT ![Len(llmCalls)].stop = ans.stop,
                                    ![Len(llmCalls)].text = ans.text,
                                    ![Len(llmCalls)].calls = ans.calls]
    /\ yielded' = IF ans.text THEN Append(yielded, "text") ELSE yielded
    /\ IF ans.stop = "complete" \/ ans.calls = <<>>
       THEN /\ memory' = Append(memory, Message("assistant", "", <<>>, <<"text">>, NoId))
            /\ events' = events \o <<<<"llm:response">>, <<"agent:complete">>>>
            /\ agPc' = "done"
            /\ UNCHANGED <<toolQueue, toolIdx>>
       ELSE /\ memory' = Append(memory, Message("assistant", "",
                                    ToolCalls(ans.calls, Len(llmCalls)),
                                    IF ans.text THEN <<"text">> ELSE <<>>, NoId))
            /\ events' = Append(events, <<"llm:response">>)
            /\ toolQueue' = ToolCalls(ans.calls, Len(llmCalls))
            /\ toolIdx' = 1
            /\ agPc' = "tool"
    /\ UNCHANGED <<iteration, max_iterations, excluded_skills>>
    /\ UNCHANGED <<secVars, skillVars>>

\* llm.generate raises: agent:error is emitted and run() re-raises.
LlmError ==
    /\ agPc \in {"llm", "synthesis"}
    /\ llmCalls' = [llmCalls EXCEPT ![Len(llmCalls)].stop = "error"]
    /\ events' = Append(events, <<"agent:error">>)
    /\ agPc' = "error"
    /\ UNCHANGED <<iteration, max_iterations, excluded_skills, toolQueue,
                   toolIdx, memory, yielded>>
    /\ UNCHANGED <<secVars, skillVars>>

\* The for loop over collected_tool_calls left after its first pass.
AfterToolFirstOnly == "loop"

\* The position of run() after the result of tool call toolIdx is appended.
AfterTool == IF toolIdx < Len(toolQueue) THEN "tool" ELSE "loop"

\* _execute_tool_with_approval up to its first suspension: an unknown tool
\* gives a failure result at once, a known one goes to check_and_approve.
ToolBegin ==
    /\ agPc = "tool"
    /\ LET tool_call == toolQueue[toolIdx]
           name == tool_call.name
       IN  IF name \notin ToolNames
           THEN /\ memory' = Append(memory,
                     ToolMessage(ToolResult(tool_call.id, FALSE,
                                            <<"Unknown tool">>), name))
                /\ toolIdx' = toolIdx + 1
                /\ agPc' = AfterTool
                /\ UNCHANGED secVars
           ELSE /\ CheckAndApproveStart("main", name)
                /\ agPc' = "security"
                /\ UNCHANGED <<memory, toolIdx>>
    /\ UNCHANGED <<iteration, max_iterations, excluded_skills, toolQueue,
                   events, llmCalls, yielded>>
    /\ UNCHANGED skillVars

\* ToolDecide without the test of decision.allowed.
ToolDecideIgnoringDenial ==
    /\ agPc = "security"
    /\ call["main"].pc = "returned"
    /\ TakeDecision("main")
    /\ events' = Append(events, <<"skill:tool_call", toolQueue[toolIdx].name>>)
    /\ ExecuteToolStart("main", toolQueue[toolIdx].name)
    /\ agPc' = "skill"
    /\ UNCHANGED <<memory, toolIdx>>
    /\ UNCHANGED <<iteration, max_iterations, excluded_skills, toolQueue,
                   llmCalls, yielded>>

\* check_and_approve has returned: on a denial security:denied is emitted
\* and the failure result is appended; otherwise skill:tool_call is emitted
\* and skill_manager.execute_tool is called.
ToolDecide ==
    /\ agPc = "security"
    /\ call["main"].pc = "returned"
    /\ TakeDecision("main")
    /\ LET tool_call == toolQueue[toolIdx]
           name == tool_call.name
           decision == call["main"].decision
       IN  IF ~decision.allowed
           THEN /\ events' = Append(events, <<"security:denied", name>>)
                /\ memory' = Append(memory,
                      ToolMessage(
                          ToolResult(tool_call.id, FALSE,
                                     <<"Permission denied">> \o decision.reason),
                          name))
                /\ toolIdx' = toolIdx + 1
                /\ agPc' = AfterTool
                /\ UNCHANGED skillVars
           ELSE /\ events' = Append(events, <<"skill:tool_call", name>>)
                /\ ExecuteToolStart("main", name)
                /\ agPc' = "skill"
                /\ UNCHANGED <<memory, toolIdx>>
    /\ UNCHANGED <<iteration, max_iterations, excluded_skills, toolQueue,
                   llmCalls, yielded>>

\* skill_manager.execute_tool has returned: skill:tool_result is emitted and
\* the result is appended.
ToolFinish ==
    /\ agPc = "skill"
    /\ skCall["main"].pc = "returned"
    /\ TakeResult("main")
    /\ LET tool_call == toolQueue[toolIdx]
           result == ToolResult(NoId, skCall["main"].success,
                                <<"Tool execution failed">>)
           stamped == [result EXCEPT !.tool_call_id = tool_call.id]
       IN  /\ events' = Append(events, <<"skill:tool_result", tool_call.name>>)
           /\ memory' = Append(memory, ToolMessage(stamped, tool_call.name))
    /\ toolIdx' = toolIdx + 1
    /\ agPc' = AfterTool
    /\ UNCHANGED <<iteration, max_iterations, excluded_skills, toolQueue,
                   llmCalls, yielded>>
    /\ UNCHANGED secVars

\* The final completion has streamed: its text is yielded and agent:complete
\* is emitted with reason max_iterations.
SynthesisAnswer(ans) ==
    /\ agPc = "synthesis"
    /\ llmCalls' = [llmCalls EXCEPT ![Len(llmCalls)].stop = ans.stop,
                                    ![Len(llmCalls)].text = ans.text,
                                    ![Len(llmCalls)].calls = ans.calls]
    /\ yielded' = IF ans.text THEN Append(yielded, "synthesis_text") ELSE yielded
    /\ events' = Append(events, <<"agent:complete", "max_iterations">>)
    /\ agPc' = "done"
    /\ UNCHANGED <<iteration, max_iterations, excluded_skills, toolQueue,
                   toolIdx, memory>>
    /\ UNCHANGED <<secVars, skillVars>>


\* ------------------------------------------------------------------------
\* Event bus: state
\* ------------------------------------------------------------------------

VARIABLES
    subscribers,   \* EventBus._subscribers, in the dict's insertion order
    middleware,    \* EventBus._middleware
    subscribed,    \* history: per (pattern, function), the on() calls since the last off()
    emPc,          \* position of the emit call in flight
    emType,        \* the type of the event being emitted
    emRegistered,  \* history: _middleware when emit was called
    chain,         \* the chain _build_chain returned, outermost middleware first
    depth,         \* how many middlewares of the chain have been entered and not left
    handlers,      \* the list _find_handlers returned to dispatch
    hstate,        \* per entry of handlers, how far its _call_handler task is
    trace          \* what has run for the event in flight, in order

busVars == <<subscribers, middleware, subscribed, emPc, emType, emRegistered,
             chain, depth, handlers, hstate, trace>>

\* Event types and subscription patterns, as strings of characters.
BusEventTypes == {<<"a", ":", "s">>, <<"k", ":", "s">>}

BusPatterns == {<<"a", ":", "s">>, <<"a", ":", "*">>, <<"*">>}

\* The functions subscribed as handlers; "bad" raises.
HandlerFns == {"good", "bad"}

\* A handler as Python sees it: a callable object.  A bound method is a
\* new object at every attribute access, equal to but not identical with
\* the object made by an earlier access: obj tells the two apart.
HandlerObjects == [fn : HandlerFns, obj : {1, 2}]

\* What on() is called with: the object of the first access.
Subscribable == { h \in HandlerObjects : h.obj = 1 }

\* The middlewares: A, B, C and D call next once and are named in the order
\* of their registration; G returns without calling next.
PassingMiddleware == <<"A", "B", "C", "D">>

MiddlewareIds == {"A", "B", "C", "D", "G"}

CallsNext(mw) == mw # "G"

\* fnmatch.fnmatch(name, pattern) for patterns of literals, * and ?
RECURSIVE Fnmatch(_, _)
Fnmatch(name, pattern) ==
    IF pattern = <<>> THEN name = <<>>
    ELSE IF Head(pattern) = "*"
    THEN \/ Fnmatch(name, Tail(pattern))
         \/ name # <<>> /\ Fnmatch(Tail(name), pattern)
    ELSE IF Head(pattern) = "?"
    THEN name # <<>> /\ Fnmatch(Tail(name), Tail(pattern))
    ELSE /\ name # <<>>
         /\ Head(name) = Head(pattern)
         /\ Fnmatch(Tail(name), Tail(pattern))

\* "*" in pattern
HasStar(pattern) == \E i \in 1..Len(pattern) : pattern[i] = "*"

\* Whether _find_handlers takes the subscribers of a pattern for a type.
PatternMatches(pattern, event_type) ==
    IF pattern = event_type THEN TRUE
    ELSE IF pattern = <<"*">> THEN TRUE
    ELSE IF HasStar(pattern) THEN Fnmatch(event_type, pattern)
    ELSE FALSE

\* The index of a pattern's entry in _subscribers, 0 when it has none.
EntryOf(pattern) ==
    IF \E i \in 1..Len(subscribers) : subscribers[i].pattern = pattern
    THEN CHOOSE i \in 1..Len(subscribers) : subscribers[i].pattern = pattern
    ELSE 0

\* EventBus.subscriber_count
SubscriberCount(subs) ==
    LET RECURSIVE Sum(_)
        Sum(i) == IF i = 0 THEN 0 ELSE Len(subs[i].subs) + Sum(i - 1)
    IN  Sum(Len(subs))

\* [h for h in subs if h is not handler]
RECURSIVE Without(_, _)
Without(subs, handler) ==
    IF subs = <<>> THEN <<>>
    ELSE IF Head(subs) = handler THEN Without(Tail(subs), handler)
    ELSE <<Head(subs)>> \o Without(Tail(subs), handler)

\* The sequence s without its i-th element.
RemoveAt(s, i) == SubSeq(s, 1, i - 1) \o SubSeq(s, i + 1, Len(s))

\* EventBus._find_handlers; every entry also carries the pattern it was
\* found under.
RECURSIVE FindHandlersFrom(_, _)
FindHandlersFrom(subs, event_type) ==
    IF subs = <<>> THEN <<>>
    ELSE (IF PatternMatches(Head(subs).pattern, event_type)
          THEN [i \in 1..Len(Head(subs).subs) |->
                   [handler |-> Head(subs).subs[i], via |-> Head(subs).pattern]]
          ELSE <<>>)
         \o FindHandlersFrom(Tail(subs), event_type)

FindHandlers(event_type) == FindHandlersFrom(subscribers, event_type)

\* reversed(s)
RECURSIVE Reversed(_)
Reversed(s) ==
    IF s = <<>> THEN <<>> ELSE Reversed(Tail(s)) \o <<Head(s)>>

\* The loop of _build_chain over the middlewares in the order given: each
\* wraps the handler built so far, which it gets as its next.
RECURSIVE WrapAll(_, _)
WrapAll(mws, handler) ==
    IF mws = <<>> THEN handler
    ELSE WrapAll(Tail(mws), <<Head(mws)>> \o handler)

\* _build_chain looping over the middlewares in registration order.
BuildChainForward(mws) == WrapAll(mws, <<>>)

\* EventBus._build_chain: dispatch wrapped by the middlewares taken in
\* reverse; the result lists the chain from its outermost middleware in.
BuildChain(mws) == WrapAll(Reversed(mws), <<>>)

NoSubscriptions == [p \in BusPatterns |-> [f \in HandlerFns |-> 0]]

BusInit ==
    /\ subscribers = <<>>
    /\ middleware = <<>>
    /\ subscribed = NoSubscriptions
    /\ emPc = "idle"
    /\ emType = <<"a", ":", "s">>
    /\ emRegistered = <<>>
    /\ chain = <<>>
    /\ depth = 0
    /\ handlers = <<>>
    /\ hstate = <<>>
    /\ trace = <<>>

emitVars == <<emPc, emType, emRegistered, chain, depth, handlers, hstate,
              trace>>

\* ------------------------------------------------------------------------
\* Event bus: actions
\* ------------------------------------------------------------------------

\* EventBus.on
On(pattern, handler) ==
    /\ SubscriberCount(subscribers) < MaxSubscriptions
    /\ LET i == EntryOf(pattern)
       IN  subscribers' =
               IF i = 0
               THEN Append(subscribers, [pattern |-> pattern, subs |-> <<handler>>])
               ELSE [subscribers EXCEPT ![i].subs = Append(@, handler)]
    /\ subscribed' = [subscribed EXCEPT ![pattern][handler.fn] = @ + 1]
    /\ UNCHANGED <<middleware, emitVars>>

\* EventBus.off
Off(pattern, handler) ==
    /\ LET i == EntryOf(pattern)
       IN  IF i = 0
           THEN UNCHANGED subscribers
           ELSE LET kept == Without(subscribers[i].subs, handler)
                IN  subscribers' =
                        IF kept = <<>> THEN RemoveAt(subscribers, i)
                        ELSE [subscribers EXCEPT ![i].subs = kept]
    /\ subscribed' = [subscribed EXCEPT ![pattern][handler.fn] = 0]
    /\ UNCHANGED <<middleware, emitVars>>

\* EventBus.use, which the program calls while it is set up, before
\* anything is emitted.
Use(mw) ==
    /\ emPc = "idle"
    /\ Len(middleware) < MaxMiddleware
    /\ \A i \in 1..Len(middleware) : middleware[i] # mw
    /\ mw # "G" =>
           mw = PassingMiddleware[1 + Cardinality({ i \in 1..Len(middleware) :
                                                      middleware[i] # "G" })]
    /\ middleware' = Append(middleware, mw)
    /\ UNCHANGED <<subscribers, subscribed, emitVars>>

\* EventBus.emit up to the call of the chain it built.
EmitStart(event_type) ==
    /\ emPc \in {"idle", "returned"}
    /\ emType' = event_type
    /\ emRegistered' = middleware
    /\ chain' = BuildChain(middleware)
    /\ depth' = 0
    /\ handlers' = <<>>
    /\ hstate' = <<>>
    /\ trace' = <<>>
    /\ emPc' = "chain"
    /\ UNCHANGED <<subscribers, middleware, subscribed>>

\* The next middleware of the chain is called: it runs up to its call of
\* next, or to its return when it does not call next.
MiddlewareEnter ==
    /\ emPc = "chain"
    /\ depth < Len(chain)
    /\ trace' = Append(trace, <<"enter", chain[depth + 1]>>)
    /\ depth' = depth + 1
    /\ emPc' = IF CallsNext(chain[depth + 1]) THEN "chain" ELSE "unwind"
    /\ UNCHANGED <<subscribers, middleware, subscribed, emType, emRegistered,
                   chain, handlers, hstate>>

\* dispatch: the matching handlers are found and asyncio.gather schedules
\* one _call_handler task for each.
Dispatch ==
    /\ emPc = "chain"
    /\ depth = Len(chain)
    /\ handlers' = FindHandlers(emType)
    /\ hstate' = [i \in 1..Len(FindHandlers(emType)) |-> "scheduled"]
    /\ trace' = Append(trace, <<"dispatch">>)
    /\ emPc' = "gather"
    /\ UNCHANGED <<subscribers, middleware, subscribed, emType, emRegistered,
                   chain, depth>>

\* A _call_handler task starts: the handler is invoked.
HandlerInvoke(i) ==
    /\ hstate[i] = "scheduled"
    /\ hstate' = [hstate EXCEPT ![i] = "running"]
    /\ UNCHANGED <<subscribers, middleware, subscribed, emPc, emType,
                   emRegistered, chain, depth, handlers, trace>>

\* A handler returns or raises.
HandlerEnd(i) ==
    /\ hstate[i] = "running"
    /\ hstate' = [hstate EXCEPT ![i] =
                      IF handlers[i].handler.fn = "bad" THEN "raised" ELSE "done"]
    /\ UNCHANGED <<subscribers, middleware, subscribed, emPc, emType,
                   emRegistered, chain, depth, handlers, trace>>

\* asyncio.gather without return_exceptions: the first exception of a
\* handler is raised in dispatch and leaves emit.
GatherFailFast ==
    /\ emPc = "gather"
    /\ \/ /\ \E i \in 1..Len(hstate) : hstate[i] = "raised"
          /\ emPc' = "raised"
       \/ /\ \A i \in 1..Len(hstate) : hstate[i] = "done"
          /\ emPc' = "unwind"
    /\ UNCHANGED <<subscribers, middleware, subscribed, emType, emRegistered,
                   chain, depth, handlers, hstate, trace>>

\* asyncio.gather(..., return_exceptions=True) has every result: the
\* exceptions among them are logged and dispatch returns the event.
GatherDone ==
    /\ emPc = "gather"
    /\ \A i \in 1..Len(hstate) : hstate[i] \in {"done", "raised"}
    /\ emPc' = "unwind"
    /\ UNCHANGED <<subscribers, middleware, subscribed, emType, emRegistered,
                   chain, depth, handlers, hstate, trace>>

\* The innermost middleware that was entered gets the event back from its
\* next, or is the one that did not call it, and returns.
MiddlewareExit ==
    /\ emPc = "unwind"
    /\ depth > 0
    /\ trace' = Append(trace, <<"exit", chain[depth]>>)
    /\ depth' = depth - 1
    /\ UNCHANGED <<subscribers, middleware, subscribed, emPc, emType,
                   emRegistered, chain, handlers, hstate>>

\* The chain has returned the event to emit, which returns it; nothing of
\* the call is kept.
EmitReturn ==
    /\ emPc = "unwind"
    /\ depth = 0
    /\ emPc' = "returned"
    /\ emType' = <<"a", ":", "s">>
    /\ emRegistered' = <<>>
    /\ chain' = <<>>
    /\ handlers' = <<>>
    /\ hstate' = <<>>
    /\ trace' = <<>>
    /\ UNCHANGED <<subscribers, middleware, subscribed, depth>>


\* ------------------------------------------------------------------------
\* Notification router: state
\* ------------------------------------------------------------------------

VARIABLES
    channels,            \* NotificationRouter._channels
    active,              \* per channel, its is_active
    rtPc,                \* position of the route call in flight
    external_channels,   \* the three lists route makes of _channels
    cli_channels,
    file_channels,
    rtIdx,               \* index in the list route is looping over
    external_delivered,  \* route's local of that name
    deliveries           \* history: what route did with each channel it came to

routerVars == <<channels, active, rtPc, external_channels, cli_channels,
                file_channels, rtIdx, external_delivered, deliveries>>

\* The channels by name: two external platforms, the CLI and the file log.
ChannelNames == {"telegram", "whatsapp", "cli", "file"}

\* NotificationChannel.is_external
IsExternal(c) == c \in {"telegram", "whatsapp"}

\* What awaiting channel.deliver can give: True, False or an exception.
DeliverOutcomes == {"true", "false", "raise"}

RouterInit ==
    /\ channels = <<>>
    /\ active = [c \in ChannelNames |-> TRUE]
    /\ rtPc = "idle"
    /\ external_channels = <<>>
    /\ cli_channels = <<>>
    /\ file_channels = <<>>
    /\ rtIdx = 0
    /\ external_delivered = FALSE
    /\ deliveries = <<>>

\* ------------------------------------------------------------------------
\* Notification router: actions
\* ------------------------------------------------------------------------

\* NotificationRouter.register, which the program calls while it is set
\* up, once per channel.
Register(c) ==
    /\ rtPc = "idle"
    /\ \A i \in 1..Len(channels) : channels[i] # c
    /\ channels' = Append(channels, c)
    /\ UNCHANGED <<active, rtPc, external_channels, cli_channels,
                   file_channels, rtIdx, external_delivered, deliveries>>

\* A channel becomes active or inactive: the chat session starts or stops,
\* the bot is configured or not.  The file channel is always active.
SetActive(c, b) ==
    /\ c # "file"
    /\ active[c] # b
    /\ active' = [active EXCEPT ![c] = b]
    /\ UNCHANGED <<channels, rtPc, external_channels, cli_channels,
                   file_channels, rtIdx, external_delivered, deliveries>>

\* route up to its first loop: the three lists are made.
RouteStart ==
    /\ rtPc \in {"idle", "returned"}
    /\ external_channels' = SelectSeq(channels, IsExternal)
    /\ cli_channels' = SelectSeq(channels,
                                 LAMBDA c : ~IsExternal(c) /\ c # "file")
    /\ file_channels' = SelectSeq(channels, LAMBDA c : c = "file")
    /\ external_delivered' = FALSE
    /\ deliveries' = <<>>
    /\ rtIdx' = 1
    /\ rtPc' = "external"
    /\ UNCHANGED <<channels, active>>

\* One pass of the loop over the external channels with the exception of
\* deliver leaving route.
ExternalStepUncaught(outcome) ==
    /\ rtPc = "external"
    /\ rtIdx <= Len(external_channels)
    /\ LET channel == external_channels[rtIdx]
       IN  IF ~active[channel]
           THEN /\ outcome = "false"
                /\ deliveries' = Append(deliveries, <<channel, "inactive">>)
                /\ UNCHANGED <<external_delivered, rtPc>>
           ELSE /\ deliveries' = Append(deliveries, <<channel, outcome>>)
                /\ external_delivered' = (external_delivered \/ outcome = "true")
                /\ rtPc' = IF outcome = "raise" THEN "raised" ELSE rtPc
    /\ rtIdx' = rtIdx + 1
    /\ UNCHANGED <<channels, active, external_channels, cli_channels,
                   file_channels>>

\* One pass of the loop over the external channels: an inactive channel
\* is passed over, an active one is delivered to, and its exception is
\* logged.
ExternalStep(outcome) ==
    /\ rtPc = "external"
    /\ rtIdx <= Len(external_channels)
    /\ LET channel == external_channels[rtIdx]
       IN  IF ~active[channel]
           THEN /\ outcome = "false"
                /\ deliveries' = Append(deliveries, <<channel, "inactive">>)
                /\ UNCHANGED external_delivered
           ELSE /\ deliveries' = Append(deliveries, <<channel, outcome>>)
                /\ external_delivered' = (external_delivered \/ outcome = "true")
    /\ rtIdx' = rtIdx + 1
    /\ UNCHANGED <<channels, active, rtPc, external_channels, cli_channels,
                   file_channels>>

\* The end of the external loop with the CLI loop entered whatever
\* external_delivered says.
ExternalDoneAlwaysCli ==
    /\ rtPc = "external"
    /\ rtIdx > Len(external_channels)
    /\ rtPc' = "cli"
    /\ rtIdx' = 1
    /\ UNCHANGED <<channels, active, external_channels, cli_channels,
                   file_channels, external_delivered, deliveries>>

\* The end of the external loop: the CLI loop is entered only if no
\* external channel delivered.
ExternalDone ==
    /\ rtPc = "external"
    /\ rtIdx > Len(external_channels)
    /\ rtPc' = IF ~external_delivered THEN "cli" ELSE "file"
    /\ rtIdx' = 1
    /\ UNCHANGED <<channels, active, external_channels, cli_channels,
                   file_channels, external_delivered, deliveries>>

\* One pass of the loop over the CLI channels.
CliStep(outcome) ==
    /\ rtPc = "cli"
    /\ rtIdx <= Len(cli_channels)
    /\ LET channel == cli_channels[rtIdx]
       IN  IF ~active[channel]
           THEN /\ outcome = "false"
                /\ deliveries' = Append(deliveries, <<channel, "inactive">>)
           ELSE deliveries' = Append(deliveries, <<channel, outcome>>)
    /\ rtIdx' = rtIdx + 1
    /\ UNCHANGED <<channels, active, rtPc, external_channels, cli_channels,
                   file_channels, external_delivered>>

\* The end of the CLI loop.
CliDone ==
    /\ rtPc = "cli"
    /\ rtIdx > Len(cli_channels)
    /\ rtPc' = "file"
    /\ rtIdx' = 1
    /\ UNCHANGED <<channels, active, external_channels, cli_channels,
                   file_channels, external_delivered, deliveries>>

\* One pass of the loop over the file channels, which does not ask
\* is_active.
FileStep(outcome) ==
    /\ rtPc = "file"
    /\ rtIdx <= Len(file_channels)
    /\ deliveries' = Append(deliveries, <<file_channels[rtIdx], outcome>>)
    /\ rtIdx' = rtIdx + 1
    /\ UNCHANGED <<channels, active, rtPc, external_channels, cli_channels,
                   file_channels, external_delivered>>

\* route returns.
RouteReturn ==
    /\ rtPc = "file"
    /\ rtIdx > Len(file_channels)
    /\ rtPc' = "returned"
    /\ UNCHANGED <<channels, active, external_channels, cli_channels,
                   file_channels, rtIdx, external_delivered, deliveries>>

\* ------------------------------------------------------------------------
\* CLI platform, pending queue: state
\* ------------------------------------------------------------------------

VARIABLES
    pending_queue,      \* the asyncio.Queue of CLIPlatform._pending_queue; the
                        \* notifications are numbered in the order of their put
    turn_in_progress,   \* CLIPlatform._turn_in_progress
    cli_running,        \* CLIPlatform.run has started and has not returned
    promptPc,           \* position of the prompt loop of CLIPlatform.run
    turnNo,             \* history: the number of user turns started
    enqueued,           \* history: per notification, the flag and the turn at its put
    consumed,           \* history: who took each notification off the queue, in order
    injected            \* history: per turn, the notifications put into its message

cliVars == <<pending_queue, turn_in_progress, cli_running, promptPc, turnNo,
             enqueued, consumed, injected>>

CliInit ==
    /\ pending_queue = <<>>
    /\ turn_in_progress = FALSE
    /\ cli_running = FALSE
    /\ promptPc = "created"
    /\ turnNo = 0
    /\ enqueued = <<>>
    /\ consumed = <<>>
    /\ injected = <<>>

\* ------------------------------------------------------------------------
\* CLI platform, pending queue: actions
\* ------------------------------------------------------------------------

\* CLIPlatform.run up to its first wait for input: the watcher task is
\* started.
CliRun ==
    /\ promptPc = "created"
    /\ cli_running' = TRUE
    /\ promptPc' = "input"
    /\ UNCHANGED <<pending_queue, turn_in_progress, turnNo, enqueued,
                   consumed, injected>>

\* CLIChannel.deliver puts a notification on the queue.
QueuePut ==
    /\ cli_running
    /\ Len(enqueued) < MaxNotifications
    /\ pending_queue' = Append(pending_queue, Len(enqueued) + 1)
    /\ enqueued' = Append(enqueued, [in_turn |-> turn_in_progress,
                                     turn |-> turnNo])
    /\ UNCHANGED <<turn_in_progress, cli_running, promptPc, turnNo, consumed,
                   injected>>

\* What taking every notification off the queue adds to consumed.
TakenBy(who, turn) ==
    [i \in 1..Len(pending_queue) |->
        [n |-> pending_queue[i], by |-> who, turn |-> turn]]

\* The user's message arrives at the prompt: _inject_pending_results
\* drains the queue into the message, turn_in_progress is set and
\* _process_message is awaited.
TurnStart ==
    /\ promptPc = "input"
    /\ turnNo < MaxTurns
    /\ consumed' = consumed \o TakenBy("drain", turnNo + 1)
    /\ injected' = Append(injected, pending_queue)
    /\ pending_queue' = <<>>
    /\ turn_in_progress' = TRUE
    /\ turnNo' = turnNo + 1
    /\ promptPc' = "processing"
    /\ UNCHANGED <<cli_running, enqueued>>

\* _process_message is over: the flag is cleared and the prompt waits for
\* input again.
TurnEnd ==
    /\ promptPc = "processing"
    /\ turn_in_progress' = FALSE
    /\ promptPc' = "input"
    /\ UNCHANGED <<pending_queue, cli_running, turnNo, enqueued, consumed,
                   injected>>

\* The watcher wakes from its sleep and drains the queue whatever
\* turn_in_progress says.
WatcherDrainIgnoringTurn ==
    /\ cli_running
    /\ pending_queue # <<>>
    /\ consumed' = consumed \o TakenBy("watcher", turnNo)
    /\ pending_queue' = <<>>
    /\ UNCHANGED <<turn_in_progress, cli_running, promptPc, turnNo, enqueued,
                   injected>>

\* The watcher wakes from its sleep with no turn in progress and a queue
\* that is not empty: it takes and renders every notification, without
\* awaiting anything in between.
WatcherDrain ==
    /\ cli_running
    /\ ~turn_in_progress
    /\ pending_queue # <<>>
    /\ consumed' = consumed \o TakenBy("watcher", turnNo)
    /\ pending_queue' = <<>>
    /\ UNCHANGED <<turn_in_progress, cli_running, promptPc, turnNo, enqueued,
                   injected>>

\* The user types /exit or ends the input: the loop is left and the
\* watcher is cancelled.
CliExit ==
    /\ promptPc = "input"
    /\ promptPc' = "stopped"
    /\ cli_running' = FALSE
    /\ UNCHANGED <<pending_queue, turn_in_progress, turnNo, enqueued,
                   consumed, injected>>

\* ------------------------------------------------------------------------
\* Background workers: state
\* ------------------------------------------------------------------------

VARIABLES
    wkPc,           \* per worker, the position of its background task
    attempt,        \* per worker, the attempt _run_and_notify is at
    error,          \* per worker, the error of the last attempt
    worker_tasks,   \* AgentRegistry._worker_tasks: the tasks not yet done
    task_complete,  \* per worker, the success field of each agent:task_complete
    routed,         \* per worker, the notifications handed to the router
    attempts,       \* history: per worker, how each attempt ended
    delegated       \* per worker, the position of its delegate_task call

workerVars == <<wkPc, attempt, error, worker_tasks, task_complete, routed,
                attempts, delegated>>

\* The workers are named by their task_id.
WorkerIds == 1..MaxWorkers

WorkerInit ==
    /\ wkPc = [w \in WorkerIds |-> "none"]
    /\ attempt = [w \in WorkerIds |-> 0]
    /\ error = [w \in WorkerIds |-> "none"]
    /\ worker_tasks = {}
    /\ task_complete = [w \in WorkerIds |-> <<>>]
    /\ routed = [w \in WorkerIds |-> <<>>]
    /\ attempts = [w \in WorkerIds |-> <<>>]
    /\ delegated = [w \in WorkerIds |-> "none"]

\* ------------------------------------------------------------------------
\* Background workers: actions
\* ------------------------------------------------------------------------

\* _delegate_task is called: it clamps its limits and awaits the emit of
\* agent:spawned.
DelegateStart(w) ==
    /\ delegated[w] = "none"
    /\ delegated' = [delegated EXCEPT ![w] = "emitting"]
    /\ UNCHANGED <<wkPc, attempt, error, worker_tasks, task_complete, routed,
                   attempts>>

\* DelegateTask without the registration of the task.
DelegateTaskUnregistered(w) ==
    /\ delegated[w] = "emitting"
    /\ wkPc' = [wkPc EXCEPT ![w] = "attempt"]
    /\ attempt' = [attempt EXCEPT ![w] = 1]
    /\ delegated' = [delegated EXCEPT ![w] = "returned"]
    /\ UNCHANGED <<error, worker_tasks, task_complete, routed, attempts>>

\* _delegate_task resumes after the emit: it creates the background task,
\* registers it and returns its confirmation, without an await in between.
DelegateTask(w) ==
    /\ delegated[w] = "emitting"
    /\ wkPc' = [wkPc EXCEPT ![w] = "attempt"]
    /\ attempt' = [attempt EXCEPT ![w] = 1]
    /\ worker_tasks' = worker_tasks \cup {w}
    /\ delegated' = [delegated EXCEPT ![w] = "returned"]
    /\ UNCHANGED <<error, task_complete, routed, attempts>>

\* _run_worker builds the sub-agent; the outcome is "built" or "raise".
\* AgentLoop.__init__ has no parameter agent_id, so the call in
\* _run_worker that passes it raises TypeError; "built" stands for a
\* construction that returns, so that the rest of the task is covered.
\* Nothing in _run_worker or in _run_and_notify catches what the
\* construction raises: the task ends with the exception and its done
\* callback takes it out of the registry.
BuildAgent(w, outcome) ==
    /\ wkPc[w] = "attempt"
    /\ IF outcome = "built"
         THEN /\ wkPc' = [wkPc EXCEPT ![w] = "running"]
              /\ UNCHANGED worker_tasks
              /\ UNCHANGED attempts
         ELSE /\ wkPc' = [wkPc EXCEPT ![w] = "escaped"]
              /\ worker_tasks' = worker_tasks \ {w}
              /\ attempts' = [attempts EXCEPT ![w] = Append(@, "raise")]
    /\ UNCHANGED <<attempt, error, task_complete, routed, delegated>>

\* run_agent_on_virtual_platform returns to _run_and_notify with no error
\* ("none") or with the error of a timeout or of an exception: a failed
\* first attempt is retried once, anything else goes on to the
\* notification.
RunReturns(w, err) ==
    /\ wkPc[w] = "running"
    /\ IF err # "none" /\ attempt[w] = 1
         THEN /\ attempt' = [attempt EXCEPT ![w] = 2]
              /\ wkPc' = [wkPc EXCEPT ![w] = "attempt"]
              /\ UNCHANGED error
         ELSE /\ error' = [error EXCEPT ![w] = err]
              /\ wkPc' = [wkPc EXCEPT ![w] = "emit"]
              /\ UNCHANGED attempt
    /\ attempts' = [attempts EXCEPT ![w] = Append(@, err)]
    /\ UNCHANGED <<worker_tasks, task_complete, routed, delegated>>

\* _run_and_notify emits agent:task_complete.
EmitTaskComplete(w) ==
    /\ wkPc[w] = "emit"
    /\ task_complete' = [task_complete EXCEPT
                            ![w] = Append(@, error[w] = "none")]
    /\ wkPc' = [wkPc EXCEPT ![w] = "route"]
    /\ UNCHANGED <<attempt, error, worker_tasks, routed, attempts, delegated>>

\* _run_and_notify routes the notification and returns.
RouteResult(w) ==
    /\ wkPc[w] = "route"
    /\ routed' = [routed EXCEPT
                     ![w] = Append(@, IF error[w] = "none" THEN "completed"
                                                            ELSE "failed")]
    /\ wkPc' = [wkPc EXCEPT ![w] = "done"]
    /\ worker_tasks' = worker_tasks \ {w}
    /\ UNCHANGED <<attempt, error, task_complete, attempts, delegated>>

\* AgentRegistry.cancel_worker or shutdown_all cancels a task that is not
\* done: CancelledError is raised at the await the task is suspended in
\* (or before its first step) and is caught nowhere in the task.
CancelWorker(w) ==
    /\ w \in worker_tasks
    /\ \/ wkPc[w] = "attempt" /\ attempt[w] = 1
       \/ wkPc[w] \in {"running", "route"}
    /\ wkPc' = [wkPc EXCEPT ![w] = "cancelled"]
    /\ worker_tasks' = worker_tasks \ {w}
    /\ UNCHANGED <<attempt, error, task_complete, routed, attempts, delegated>>

\* ------------------------------------------------------------------------
\* Scheduler across restarts: state and actions
\* ------------------------------------------------------------------------

\* The engine of a process that started at the first instant of the model.
EngineStarted ==
    /\ sched_running = TRUE
    /\ startedAt = ClockStep

\* A fresh installation: no job is stored and the process is not running.
RestartInit ==
    /\ now = ClockStep
    /\ store = [j \in JobIds |-> NoRow]
    /\ in_flight = {}
    /\ tickPc = "sleep"
    /\ tickNow = 0
    /\ due_jobs = {}
    /\ wakeAt = ClockStep
    /\ fires = <<>>
    /\ sched_running = FALSE
    /\ startedAt = 0

\* SchedulerStore.update_after_run: a last_run of 0 is replaced by the
\* current time before the row is written.
UpdateAfterRunAt(st, j, next_run, last_run, t) ==
    UpdateAfterRun(st, j, next_run, IF last_run = 0 THEN t ELSE last_run)

\* The row _compute_initial_next_runs leaves for job j at time t.
InitialNextRun(st, j, t) ==
    IF st[j].exists /\ st[j].active /\ (st[j].next_run = 0 \/ st[j].next_run < t)
    THEN UpdateAfterRunAt(st, j, NextFireTime(JobTrigger(j), t, t),
                          st[j].last_run, t)[j]
    ELSE st[j]

\* SchedulerEngine.start without its startup pass.
EngineStartWithoutPass ==
    /\ ~sched_running
    /\ sched_running' = TRUE
    /\ startedAt' = now
    /\ wakeAt' = now
    /\ UNCHANGED <<now, store, in_flight, tickPc, tickNow, due_jobs, fires>>

\* SchedulerEngine.start in a new process: the startup pass, then the
\* polling loop, whose first tick is immediate.
EngineStart ==
    /\ ~sched_running
    /\ store' = [j \in JobIds |-> InitialNextRun(store, j, now)]
    /\ sched_running' = TRUE
    /\ startedAt' = now
    /\ wakeAt' = now
    /\ UNCHANGED <<now, in_flight, tickPc, tickNow, due_jobs, fires>>

\* The scheduler skill's create_job storing the Job with the default
\* next_run of the dataclass.
CreateJobUncomputed(j) ==
    /\ sched_running
    /\ ~store[j].exists
    /\ JobTrigger(j).type = "oneshot" => JobTrigger(j).at > now
    /\ store' = [store EXCEPT ![j] = [exists |-> TRUE, next_run |-> 0,
                                      last_run |-> 0, active |-> TRUE]]
    /\ UNCHANGED <<now, in_flight, tickPc, tickNow, due_jobs, wakeAt, fires,
                   sched_running, startedAt>>

\* The scheduler skill's create_job: a one-shot whose time is not in the
\* future is refused; the Job is saved with the next_run its trigger gives
\* for a job that never ran.
CreateJob(j) ==
    /\ sched_running
    /\ ~store[j].exists
    /\ JobTrigger(j).type = "oneshot" => JobTrigger(j).at > now
    /\ store' = [store EXCEPT
                    ![j] = [exists |-> TRUE,
                            next_run |-> NextFireTime(JobTrigger(j), 0, now),
                            last_run |-> 0, active |-> TRUE]]
    /\ UNCHANGED <<now, in_flight, tickPc, tickNow, due_jobs, wakeAt, fires,
                   sched_running, startedAt>>

\* The process exits with no store call in the executor: the polling loop
\* and every fire that has not ended are cancelled, and the tasks and the
\* in-flight set die with the process.
ProcessExit ==
    /\ sched_running
    /\ tickPc # "read"
    /\ \A i \in 1..Len(fires) : fires[i].pc # "persisting"
    /\ sched_running' = FALSE
    /\ tickPc' = "sleep"
    /\ tickNow' = 0
    /\ due_jobs' = {}
    /\ in_flight' = {}
    /\ fires' = <<>>
    /\ wakeAt' = now
    /\ UNCHANGED <<now, store, startedAt>>

\* ------------------------------------------------------------------------
\* Agent registry: state and actions
\* ------------------------------------------------------------------------

VARIABLES
    workers,        \* AgentRegistry._worker_tasks: pairs of task id and task
    experts,        \* AgentRegistry._experts: the names of the experts
    rgTask,         \* per worker task: "unborn", "running", "cancelling", "done"
    rgKey,          \* per worker task: the task id it was registered under
    exTask,         \* per expert: "unborn", "running", "stopped"
    sdPc,           \* position of the shutdown sequence: "idle", "gather",
                    \* "experts", "returned" for shutdown_all, then
                    \* "scheduler_stopped" and "finished"
    sdWorkers,      \* the worker tasks shutdown_all took from the map
    sdExperts,      \* the experts shutdown_all has still to stop, in order
    sdCalled        \* history: what was registered when shutdown_all was called

registryVars == <<workers, experts, rgTask, rgKey, exTask, sdPc, sdWorkers,
                  sdExperts, sdCalled>>

TaskIds == 1..MaxTasks

\* The task ids tasks are registered under: one of a delegated worker and
\* the "scheduler:<name>" of a job.
WorkerKeys == {"worker", "scheduler:job"}

ExpertNames == {"e1", "e2"}

NothingCalled == [workers |-> {}, experts |-> {}, calls |-> 0]

\* The tasks in the workers map.
TrackedTasks == {p[2] : p \in workers}

RegistryInit ==
    /\ workers = {}
    /\ experts = {}
    /\ rgTask = [t \in TaskIds |-> "unborn"]
    /\ rgKey = [t \in TaskIds |-> "worker"]
    /\ exTask = [e \in ExpertNames |-> "unborn"]
    /\ sdPc = "idle"
    /\ sdWorkers = {}
    /\ sdExperts = <<>>
    /\ sdCalled = NothingCalled

\* register_worker under a task id that no task still alive was registered
\* with.
RegisterWorkerFresh(key, t) ==
    /\ rgTask[t] = "unborn"
    /\ sdPc \notin {"returned", "scheduler_stopped", "finished"}
    /\ key \notin {rgKey[u] : u \in {v \in TaskIds :
                                       rgTask[v] \in {"running", "cancelling"}}}
    /\ rgTask' = [rgTask EXCEPT ![t] = "running"]
    /\ rgKey' = [rgKey EXCEPT ![t] = key]
    /\ workers' = workers \cup {<<key, t>>}
    /\ UNCHANGED <<experts, exTask, sdPc, sdWorkers, sdExperts, sdCalled>>

\* register_worker, called by WorkerSkill._delegate_task and by the
\* scheduler's _tick with the task they have just created: the task takes
\* the place of whatever the map holds under the task id. The scheduler is
\* stopped only after shutdown_all has returned, with no await in between,
\* so tasks are registered until shutdown_all returns.
RegisterWorker(key, t) ==
    /\ rgTask[t] = "unborn"
    /\ sdPc \notin {"returned", "scheduler_stopped", "finished"}
    /\ rgTask' = [rgTask EXCEPT ![t] = "running"]
    /\ rgKey' = [rgKey EXCEPT ![t] = key]
    /\ workers' = {p \in workers : p[1] # key} \cup {<<key, t>>}
    /\ UNCHANGED <<experts, exTask, sdPc, sdWorkers, sdExperts, sdCalled>>

\* A task ends, by itself or by the cancellation it was sent, and its
\* done callback pops the task id it was registered under.
TaskDone(t) ==
    /\ rgTask[t] \in {"running", "cancelling"}
    /\ rgTask' = [rgTask EXCEPT ![t] = "done"]
    /\ workers' = {p \in workers : p[1] # rgKey[t]}
    /\ UNCHANGED <<experts, rgKey, exTask, sdPc, sdWorkers, sdExperts,
                   sdCalled>>

\* cancel_worker: pops the task id and cancels the task it held.
RegistryCancelWorker(key) ==
    /\ key \in {p[1] : p \in workers}
    /\ workers' = {p \in workers : p[1] # key}
    /\ rgTask' = [t \in TaskIds |->
                    IF <<key, t>> \in workers /\ rgTask[t] = "running"
                    THEN "cancelling" ELSE rgTask[t]]
    /\ UNCHANGED <<experts, rgKey, exTask, sdPc, sdWorkers, sdExperts,
                   sdCalled>>

\* register_expert; nothing registers an expert once the session is
\* shutting down.
RegisterExpert(e) ==
    /\ sdPc = "idle"
    /\ exTask[e] = "unborn"
    /\ exTask' = [exTask EXCEPT ![e] = "running"]
    /\ experts' = experts \cup {e}
    /\ UNCHANGED <<workers, rgTask, rgKey, sdPc, sdWorkers, sdExperts,
                   sdCalled>>

\* Some order of the values of the experts dict.
RECURSIVE SeqOf(_)
SeqOf(S) ==
    IF S = {} THEN <<>>
    ELSE LET x == CHOOSE y \in S : TRUE IN <<x>> \o SeqOf(S \ {x})

\* shutdown_all is called: it takes the worker tasks from the map, clears
\* the map and cancels every task that is not done. With tasks taken it
\* awaits their gather; with none it goes on, without an await, to take
\* and clear the experts, and with no expert either it returns.
ShutdownStart ==
    /\ sdPc \in {"idle", "returned"}
    /\ sdCalled.calls < MaxShutdowns
    /\ sdCalled' = [workers |-> TrackedTasks, experts |-> experts,
                    calls |-> sdCalled.calls + 1]
    /\ workers' = {}
    /\ rgTask' = [t \in TaskIds |->
                    IF t \in TrackedTasks /\ rgTask[t] = "running"
                    THEN "cancelling" ELSE rgTask[t]]
    /\ sdWorkers' = TrackedTasks
    /\ IF workers # {}
         THEN /\ sdPc' = "gather"
              /\ UNCHANGED <<experts, sdExperts>>
         ELSE /\ experts' = {}
              /\ sdExperts' = SeqOf(experts)
              /\ sdPc' = IF experts = {} THEN "returned" ELSE "experts"
    /\ UNCHANGED <<rgKey, exTask>>

\* Every task shutdown_all took has ended: the gather returns, and
\* shutdown_all takes and clears the experts.
GatherReturns ==
    /\ sdPc = "gather"
    /\ \A t \in sdWorkers : rgTask[t] = "done"
    /\ experts' = {}
    /\ sdExperts' = SeqOf(experts)
    /\ sdPc' = IF experts = {} THEN "returned" ELSE "experts"
    /\ UNCHANGED <<workers, rgTask, rgKey, exTask, sdWorkers, sdCalled>>

\* _stop_entry for the next expert taken: its platform is stopped and its
\* task is cancelled and joined; after the last one shutdown_all returns.
StopEntry ==
    /\ sdPc = "experts"
    /\ exTask' = [exTask EXCEPT ![Head(sdExperts)] = "stopped"]
    /\ sdExperts' = Tail(sdExperts)
    /\ sdPc' = IF Len(sdExperts) = 1 THEN "returned" ELSE "experts"
    /\ UNCHANGED <<workers, experts, rgTask, rgKey, sdWorkers, sdCalled>>

\* After shutdown_all the session stops the scheduler engine: its loop
\* task is cancelled and awaited, and no tick runs any more.
SchedulerStopped ==
    /\ sdPc = "returned"
    /\ sdPc' = "scheduler_stopped"
    /\ UNCHANGED <<workers, experts, rgTask, rgKey, exTask, sdWorkers,
                   sdExperts, sdCalled>>

\* Then it stops the kernel, which cancels and awaits the tasks given to
\* Kernel.spawn; no worker, fire or platform task is among them.
KernelStopped ==
    /\ sdPc = "scheduler_stopped"
    /\ sdPc' = "finished"
    /\ UNCHANGED <<workers, experts, rgTask, rgKey, exTask, sdWorkers,
                   sdExperts, sdCalled>>

\* ------------------------------------------------------------------------
\* Escalation bus (src/arc/core/escalation.py)
\* ------------------------------------------------------------------------

VARIABLES
    esc_pending,    \* EscalationBus._pending: the ids of the registered requests
    esc_counter,    \* EscalationBus._counter
    esc_future,     \* the future of each request: "unborn", "pending" or its answer
    ask,            \* each ask_manager call: its position, its id, what it returned
    esc_log         \* the resolve_escalation calls made so far: id, answer,
                    \* return value, and whether the asker's timeout had fired

escalationVars == <<esc_pending, esc_counter, esc_future, ask, esc_log>>

\* The background agents that ask, and the ids resolve_escalation is called
\* with: the ids esc_1 .. esc_MaxEscalations and one id that is never issued.
Askers == {"w1", "w2"}

EscalationIds == 1..(MaxEscalations + 1)

EscalationAnswers == {"yes", "no"}

\* The string ask_manager returns when nobody answered in time.
NoAnswerFallback == "[No answer received]"

EscalationInit ==
    /\ esc_pending = {}
    /\ esc_counter = 0
    /\ esc_future = [i \in EscalationIds |-> "unborn"]
    /\ ask = [a \in Askers |-> [pc |-> "idle", id |-> 0, result |-> "none"]]
    /\ esc_log = <<>>

\* ask_manager up to its first await: the counter gives the id, the future
\* is created and registered, and the agent:escalation event is emitted.
AskManager(a) ==
    /\ ask[a].pc = "idle"
    /\ esc_counter < MaxEscalations
    /\ LET id == esc_counter + 1 IN
         /\ esc_counter' = id
         /\ esc_future' = [esc_future EXCEPT ![id] = "pending"]
         /\ esc_pending' = esc_pending \cup {id}
         /\ ask' = [ask EXCEPT ![a] = [pc |-> "emitting", id |-> id,
                                        result |-> "none"]]
    /\ UNCHANGED esc_log

\* kernel.emit returns and ask_manager awaits
\* wait_for(shield(future), timeout).
AskWait(a) ==
    /\ ask[a].pc = "emitting"
    /\ ask' = [ask EXCEPT ![a].pc = "waiting"]
    /\ UNCHANGED <<esc_pending, esc_counter, esc_future, esc_log>>

\* resolve_escalation: pops the request; false when there is none or its
\* future is done, otherwise sets the future's result and returns true.
ResolveEscalation(id, answer) ==
    /\ Len(esc_log) < MaxResolves
    /\ LET found == id \in esc_pending
           done == esc_future[id] # "pending"
           ok == found /\ ~done
       IN
         /\ esc_pending' = esc_pending \ {id}
         /\ esc_future' = IF ok THEN [esc_future EXCEPT ![id] = answer]
                          ELSE esc_future
         /\ esc_log' = Append(esc_log,
                [id |-> id, answer |-> answer, ret |-> ok,
                 late |-> \E a \in Askers :
                              ask[a].id = id /\ ask[a].pc = "timed_out"])
    /\ UNCHANGED <<esc_counter, ask>>

\* The timeout of wait_for fires while the future has no result: the
\* awaiting call is woken with TimeoutError, and because of the shield the
\* request's own future is left as it is.
AskTimeout(a) ==
    /\ ask[a].pc = "waiting"
    /\ esc_future[ask[a].id] = "pending"
    /\ ask' = [ask EXCEPT ![a].pc = "timed_out"]
    /\ UNCHANGED <<esc_pending, esc_counter, esc_future, esc_log>>

\* An ask_manager that lets the TimeoutError out.
AskTimeoutResumeRaising(a) ==
    /\ ask[a].pc = "timed_out"
    /\ ask' = [ask EXCEPT ![a].pc = "raised"]
    /\ UNCHANGED <<esc_pending, esc_counter, esc_future, esc_log>>

\* The except branch of ask_manager: the request is dropped and the
\* fallback string returned.
AskTimeoutResume(a) ==
    /\ ask[a].pc = "timed_out"
    /\ esc_pending' = esc_pending \ {ask[a].id}
    /\ ask' = [ask EXCEPT ![a].pc = "returned", ![a].result = NoAnswerFallback]
    /\ UNCHANGED <<esc_counter, esc_future, esc_log>>

\* wait_for returns the future's result and ask_manager returns it.
AskResume(a) ==
    /\ ask[a].pc = "waiting"
    /\ esc_future[ask[a].id] \in EscalationAnswers
    /\ ask' = [ask EXCEPT ![a].pc = "returned",
                          ![a].result = esc_future[ask[a].id]]
    /\ UNCHANGED <<esc_pending, esc_counter, esc_future, esc_log>>

\* The task awaiting ask_manager is cancelled while it waits: the shield
\* takes the cancellation, the request's future is left as it is, and the
\* CancelledError passes the except branch, so nothing is popped.
AskCancelled(a) ==
    /\ ask[a].pc = "waiting"
    /\ esc_future[ask[a].id] = "pending"
    /\ ask' = [ask EXCEPT ![a].pc = "cancelled"]
    /\ UNCHANGED <<esc_pending, esc_counter, esc_future, esc_log>>

\* ------------------------------------------------------------------------
\* Kernel lifecycle (src/arc/core/kernel.py)
\* ------------------------------------------------------------------------

VARIABLES
    kernel_running,     \* Kernel._running
    background_tasks,   \* Kernel._background_tasks
    kernelPc,           \* where the current start() or stop() call stands
    kernel_events,      \* the system:start and system:stop events emitted
    kernel_calls        \* the start() and stop() calls made so far

kernelVars == <<kernel_running, background_tasks, kernelPc, kernel_events,
                kernel_calls>>

KernelTasks == {"t1", "t2"}

KernelInit ==
    /\ kernel_running = FALSE
    /\ background_tasks = {}
    /\ kernelPc = "idle"
    /\ kernel_events = <<>>
    /\ kernel_calls = <<>>

\* A start() that does not look at _running.
KernelStartUnguarded ==
    /\ kernelPc = "idle"
    /\ Len(kernel_calls) < MaxKernelCalls
    /\ kernel_calls' = Append(kernel_calls, "start")
    /\ kernel_running' = TRUE
    /\ kernel_events' = Append(kernel_events, "system:start")
    /\ kernelPc' = "start_emit"
    /\ UNCHANGED background_tasks

\* Kernel.start up to its await: returns at once when running, otherwise
\* sets _running and emits system:start.
KernelStart ==
    /\ kernelPc = "idle"
    /\ Len(kernel_calls) < MaxKernelCalls
    /\ kernel_calls' = Append(kernel_calls, "start")
    /\ IF kernel_running
       THEN UNCHANGED <<kernel_running, kernel_events, kernelPc>>
       ELSE /\ kernel_running' = TRUE
            /\ kernel_events' = Append(kernel_events, "system:start")
            /\ kernelPc' = "start_emit"
    /\ UNCHANGED background_tasks

\* Kernel.stop up to its first await: returns at once when not running,
\* otherwise clears _running and cancels the tracked tasks; with tasks it
\* awaits their gather, without it goes on to emit system:stop.
KernelStop ==
    /\ kernelPc = "idle"
    /\ Len(kernel_calls) < MaxKernelCalls
    /\ kernel_calls' = Append(kernel_calls, "stop")
    /\ IF ~kernel_running
       THEN UNCHANGED <<kernel_running, kernel_events, kernelPc,
                        background_tasks>>
       ELSE /\ kernel_running' = FALSE
            /\ IF background_tasks # {}
               THEN /\ kernelPc' = "stop_gather"
                    /\ UNCHANGED <<kernel_events, background_tasks>>
               ELSE /\ background_tasks' = {}
                    /\ kernel_events' = Append(kernel_events, "system:stop")
                    /\ kernelPc' = "stop_emit"

\* The gather of the cancelled tasks returns: the list is cleared and
\* system:stop is emitted.
KernelGatherReturns ==
    /\ kernelPc = "stop_gather"
    /\ background_tasks' = {}
    /\ kernel_events' = Append(kernel_events, "system:stop")
    /\ kernelPc' = "stop_emit"
    /\ UNCHANGED <<kernel_running, kernel_calls>>

\* The emit of start() or stop() returns and so does the call.
KernelEmitReturns ==
    /\ kernelPc \in {"start_emit", "stop_emit"}
    /\ kernelPc' = "idle"
    /\ UNCHANGED <<kernel_running, background_tasks, kernel_events,
                   kernel_calls>>

\* Kernel.spawn: the task is tracked.
Spawn(t) ==
    /\ t \notin background_tasks
    /\ background_tasks' = background_tasks \cup {t}
    /\ UNCHANGED <<kernel_running, kernelPc, kernel_events, kernel_calls>>

\* The done callback of a tracked task removes it.
KernelTaskDone(t) ==
    /\ t \in background_tasks
    /\ background_tasks' = background_tasks \ {t}
    /\ UNCHANGED <<kernel_running, kernelPc, kernel_events, kernel_calls>>

\* ------------------------------------------------------------------------
\* Virtual platform (src/arc/platforms/virtual/app.py)
\* ------------------------------------------------------------------------

VARIABLES
    vp_running,       \* VirtualPlatform._running
    input_queue,      \* VirtualPlatform._input_queue
    current_buffer,   \* VirtualPlatform._current_buffer
    response_ready,   \* VirtualPlatform._response_ready is set
    runPc,            \* the task of run(): "none", "created", "getting",
                      \* "handling", "stopped", "cancelled"
    runMsg,           \* the message run() is handling
    handled,          \* history: the messages whose handler ran to its end
    send,             \* the send_message call of the one caller
    replies           \* history: what the send_message calls returned

virtualVars == <<vp_running, input_queue, current_buffer, response_ready,
                 runPc, runMsg, handled, send, replies>>

\* What the handler does with a message: yields two chunks, yields none, or
\* yields one chunk and raises.
HandlerKinds == {"two", "empty", "boom"}

ChunkCount(kind) == IF kind = "two" THEN 2 ELSE IF kind = "boom" THEN 1 ELSE 0

\* The stop sentinel run() takes from the queue.
StopSentinel == [n |-> 0, kind |-> "empty"]

\* The "[Error: ...]" chunk run() appends for message n.
ErrorChunk(n) == <<n, 0>>

NoSend == [pc |-> "idle", n |-> 0, kind |-> "empty", loop |-> "none",
           stopping |-> FALSE]

VirtualInit ==
    /\ vp_running = FALSE
    /\ input_queue = <<>>
    /\ current_buffer = <<>>
    /\ response_ready = FALSE
    /\ runPc = "none"
    /\ runMsg = StopSentinel
    /\ handled = {}
    /\ send = NoSend
    /\ replies = <<>>

\* asyncio.create_task(platform.run(handler)).
RunCreate ==
    /\ runPc = "none"
    /\ runPc' = "created"
    /\ UNCHANGED <<vp_running, input_queue, current_buffer, response_ready,
                   runMsg, handled, send, replies>>

\* run() up to its first await on the queue.
VirtualRunStart ==
    /\ runPc = "created"
    /\ vp_running' = TRUE
    /\ runPc' = "getting"
    /\ UNCHANGED <<input_queue, current_buffer, response_ready, runMsg,
                   handled, send, replies>>

\* The queue hands run() a message: on the sentinel the loop ends, on a
\* text the buffer is emptied and the handler called.
RunGet ==
    /\ runPc = "getting"
    /\ input_queue # <<>>
    /\ input_queue' = Tail(input_queue)
    /\ IF Head(input_queue) = StopSentinel
       THEN /\ vp_running' = FALSE
            /\ runPc' = "stopped"
            /\ UNCHANGED <<current_buffer, runMsg>>
       ELSE /\ current_buffer' = <<>>
            /\ runMsg' = Head(input_queue)
            /\ runPc' = "handling"
            /\ UNCHANGED vp_running
    /\ UNCHANGED <<response_ready, handled, send, replies>>

\* The handler yields its next chunk and run() appends it to the buffer.
HandlerYield ==
    /\ runPc = "handling"
    /\ Len(current_buffer) < ChunkCount(runMsg.kind)
    /\ current_buffer' =
          Append(current_buffer, <<runMsg.n, Len(current_buffer) + 1>>)
    /\ UNCHANGED <<vp_running, input_queue, response_ready, runPc, runMsg,
                   handled, send, replies>>

\* The handler has yielded its chunks and returns or raises: on an
\* exception the error chunk is appended; the signal is set, and the loop
\* goes on while _running holds.
HandlerEnds ==
    /\ runPc = "handling"
    /\ Len(current_buffer) >= ChunkCount(runMsg.kind)
    /\ current_buffer' = IF runMsg.kind = "boom"
                         THEN Append(current_buffer, ErrorChunk(runMsg.n))
                         ELSE current_buffer
    /\ response_ready' = TRUE
    /\ handled' = handled \cup {runMsg.n}
    /\ runPc' = IF vp_running THEN "getting" ELSE "stopped"
    /\ UNCHANGED <<vp_running, input_queue, runMsg, send, replies>>

\* The task of run() is cancelled: while it waits on the queue the loop
\* ends; while the handler runs the signal is set and the loop ends.
RunCancelled ==
    /\ runPc \in {"getting", "handling"}
    /\ response_ready' = (response_ready \/ runPc = "handling")
    /\ vp_running' = FALSE
    /\ runPc' = "cancelled"
    /\ UNCHANGED <<input_queue, current_buffer, runMsg, handled, send,
                   replies>>

\* stop(): clears _running and puts the sentinel.
VirtualStop ==
    /\ StopSentinel \notin {input_queue[i] : i \in 1..Len(input_queue)}
    /\ vp_running' = FALSE
    /\ input_queue' = Append(input_queue, StopSentinel)
    /\ UNCHANGED <<current_buffer, response_ready, runPc, runMsg, handled,
                   send, replies>>

\* A send_message that leaves the signal as it is.
SendMessageKeepingSignal(kind) ==
    /\ send.pc = "idle"
    /\ send.n < MaxMessages
    /\ current_buffer' = <<>>
    /\ input_queue' = Append(input_queue, [n |-> send.n + 1, kind |-> kind])
    /\ send' = [pc |-> "waiting", n |-> send.n + 1, kind |-> kind,
                loop |-> runPc,
                stopping |-> StopSentinel \in
                               {input_queue[i] : i \in 1..Len(input_queue)}]
    /\ UNCHANGED <<vp_running, response_ready, runPc, runMsg, handled,
                   replies>>

\* send_message up to its wait on the signal: the signal is cleared, the
\* buffer emptied and the text put on the queue. Calls are made one after
\* the other.
SendMessage(kind) ==
    /\ send.pc = "idle"
    /\ send.n < MaxMessages
    /\ response_ready' = FALSE
    /\ current_buffer' = <<>>
    /\ input_queue' = Append(input_queue, [n |-> send.n + 1, kind |-> kind])
    /\ send' = [pc |-> "waiting", n |-> send.n + 1, kind |-> kind,
                loop |-> runPc,
                stopping |-> StopSentinel \in
                               {input_queue[i] : i \in 1..Len(input_queue)}]
    /\ UNCHANGED <<vp_running, runPc, runMsg, handled, replies>>

\* The signal is set: send_message returns the joined buffer.
SendReturns ==
    /\ send.pc = "waiting"
    /\ response_ready
    /\ replies' = Append(replies, [n |-> send.n, kind |-> send.kind,
                                   text |-> current_buffer])
    /\ send' = [send EXCEPT !.pc = "idle"]
    /\ UNCHANGED <<vp_running, input_queue, current_buffer, response_ready,
                   runPc, runMsg, handled>>

\* ------------------------------------------------------------------------
\* Context composer (src/arc/memory/context.py)
\* ------------------------------------------------------------------------

VARIABLES
    system_tokens,     \* tokens of the augmented system prompt; 0 when empty
    session_messages,  \* session.messages: the token count of each message
    token_budget,      \* max_tokens - reserve_output
    recent_window,     \* the recent_window argument
    composed           \* the ComposedContext returned, once compose has run

composerVars == <<system_tokens, session_messages, token_budget,
                  recent_window, composed>>

NotComposed == [messages |-> <<>>, token_count |-> 0, done |-> FALSE]

\* The message list compose works on: the system message, when the prompt
\* is not empty, and the session messages by their position.
AugmentedSystem(sys) ==
    IF sys > 0 THEN <<[role |-> "system", pos |-> 0, tokens |-> sys]>>
    ELSE <<>>

OtherMsgs(msgs) ==
    [i \in 1..Len(msgs) |-> [role |-> "other", pos |-> i, tokens |-> msgs[i]]]

RECURSIVE TokenCounter(_)
\* The token counter: the tokens of the messages it is given.
TokenCounter(list) ==
    IF list = <<>> THEN 0 ELSE Head(list).tokens + TokenCounter(Tail(list))

\* other_msgs[-window:]
LastOf(list, window) == SubSeq(list, Len(list) - window + 1, Len(list))

RECURSIVE TruncateFromEnd(_, _, _, _)
\* A truncation loop that keeps the oldest messages of the window.
TruncateFromEnd(aug, others, window, budget) ==
    IF window > 0
    THEN LET candidate == aug \o SubSeq(others, 1, window) IN
           IF TokenCounter(candidate) <= budget
           THEN [messages |-> candidate,
                 token_count |-> TokenCounter(candidate), done |-> TRUE]
           ELSE TruncateFromEnd(aug, others, window - 1, budget)
    ELSE [messages |-> aug, token_count |-> TokenCounter(aug), done |-> TRUE]

RECURSIVE Truncate(_, _, _, _)
\* Step 4 of compose and its worst case: the largest window of the most
\* recent messages that fits with the system message, else the system
\* message alone.
Truncate(aug, others, window, budget) ==
    IF window > 0
    THEN LET candidate == aug \o LastOf(others, window) IN
           IF TokenCounter(candidate) <= budget
           THEN [messages |-> candidate,
                 token_count |-> TokenCounter(candidate), done |-> TRUE]
           ELSE Truncate(aug, others, window - 1, budget)
    ELSE [messages |-> aug, token_count |-> TokenCounter(aug), done |-> TRUE]

\* compose without a memory manager: everything when it fits, else the
\* truncation.
ComposeContext(sys, msgs, window, budget) ==
    LET aug == AugmentedSystem(sys)
        others == OtherMsgs(msgs)
        all_messages == aug \o others
    IN  IF TokenCounter(all_messages) <= budget
        THEN [messages |-> all_messages,
              token_count |-> TokenCounter(all_messages), done |-> TRUE]
        ELSE Truncate(aug, others,
                      IF window < Len(others) THEN window ELSE Len(others),
                      budget)

\* A session with or without a system prompt, any messages, any budget and
\* window.
ComposerInit ==
    /\ system_tokens \in 0..MaxMessageTokens
    /\ session_messages \in
          UNION { [1..n -> 1..MaxMessageTokens] : n \in 0..MaxSessionLen }
    /\ token_budget \in 1..MaxBudget
    /\ recent_window \in 1..MaxSessionLen
    /\ composed = NotComposed

\* The composer of a session that nobody has composed.
ComposerIdle ==
    /\ system_tokens = 1
    /\ session_messages = <<>>
    /\ token_budget = MaxBudget
    /\ recent_window = 1
    /\ composed = NotComposed

\* compose is called.
Compose ==
    /\ ~composed.done
    /\ composed' = ComposeContext(system_tokens, session_messages,
                                  recent_window, token_budget)
    /\ UNCHANGED <<system_tokens, session_messages, token_budget,
                   recent_window>>

\* ------------------------------------------------------------------------
\* Skill registration and tool routing: state
\* ------------------------------------------------------------------------

VARIABLES
    skills,         \* SkillManager._skills: the skills in insertion order
    tool_to_skill,  \* SkillManager._tool_to_skill
    registrations,  \* the register calls made
    tcall           \* the _execute_tool_with_approval call of the agent

skillRegVars == <<skills, tool_to_skill, registrations, tcall>>

MaxRegistrations == 3

RegisteredSkillNames == {"filesystem", "mcp"}

ManifestToolNames == {"read_file", "run"}

\* manifest.tools of the skills that may be registered: lists of ToolSpec
\* with a name and required_capabilities.
Manifests ==
    { <<[name |-> "read_file", caps |-> {"file:read"}]>>,
      <<[name |-> "read_file", caps |-> {}]>>,
      <<[name |-> "run", caps |-> {"shell:exec"}],
        [name |-> "read_file", caps |-> {"file:read", "file:write"}]>> }

NoSkill == "none"

IdleToolCall == [pc |-> "idle", name |-> "read_file", checked |-> {},
                 allowed |-> FALSE, executor |-> NoSkill]

SkillRegInit ==
    /\ skills = <<>>
    /\ tool_to_skill = [t \in ManifestToolNames |-> NoSkill]
    /\ registrations = 0
    /\ tcall = IdleToolCall

\* A list of ToolSpec has a spec of that name.
HasTool(tools, name) == \E p \in 1..Len(tools) : tools[p].name = name

\* next((t for t in tool_specs if t.name == name), None): the first spec of
\* that name in the list.
FirstSpec(tools, name) ==
    tools[CHOOSE p \in 1..Len(tools) :
              /\ tools[p].name = name
              /\ \A q \in 1..(p - 1) : tools[q].name # name]

RECURSIVE GetAllToolSpecs(_)
\* get_all_tool_specs: the manifests' tools, skill after skill in the order
\* of the _skills dict.
GetAllToolSpecs(list) ==
    IF list = <<>> THEN <<>>
    ELSE Head(list).tools \o GetAllToolSpecs(Tail(list))

\* ------------------------------------------------------------------------
\* Skill registration and tool routing: actions
\* ------------------------------------------------------------------------

\* register(skill): the skill takes its name's place in _skills (a new name
\* goes to the end, a registered one keeps its position) and every tool of
\* its manifest is mapped to it, whoever owned the name before.
RegisterSkill(name, tools) ==
    /\ registrations < MaxRegistrations
    /\ tcall.pc = "idle"
    /\ registrations' = registrations + 1
    /\ skills' = IF \E i \in 1..Len(skills) : skills[i].name = name
                 THEN [i \in 1..Len(skills) |->
                          IF skills[i].name = name
                          THEN [name |-> name, tools |-> tools]
                          ELSE skills[i]]
                 ELSE Append(skills, [name |-> name, tools |-> tools])
    /\ tool_to_skill' = [t \in ManifestToolNames |->
                            IF HasTool(tools, t) THEN name ELSE tool_to_skill[t]]
    /\ UNCHANGED tcall

\* _execute_tool_with_approval up to check_and_approve: the spec of the
\* called name is looked up in get_all_tool_specs(); an unknown name gives
\* the failure result, a known one has its spec handed to the security
\* engine.
ToolLookup(name) ==
    /\ tcall.pc = "idle"
    /\ skills # <<>>
    /\ LET tool_specs == GetAllToolSpecs(skills)
       IN  tcall' = IF ~HasTool(tool_specs, name)
                    THEN [IdleToolCall EXCEPT !.pc = "unknown", !.name = name]
                    ELSE [IdleToolCall EXCEPT
                             !.pc = "checking", !.name = name,
                             !.checked = FirstSpec(tool_specs, name).caps]
    /\ UNCHANGED <<skills, tool_to_skill, registrations>>

\* check_and_approve returns for the spec it was given: a spec without
\* required capabilities is allowed by check_tool at once, any other is
\* decided by the policy and the user.  A denial gives the failure result;
\* otherwise skill_manager.execute_tool routes the name by _tool_to_skill
\* and the owning skill executes it.
ToolChecked(allowed) ==
    /\ tcall.pc = "checking"
    /\ tcall.checked = {} => allowed
    /\ tcall' = IF ~allowed
                THEN [tcall EXCEPT !.pc = "denied"]
                ELSE [tcall EXCEPT !.pc = "executed", !.allowed = TRUE,
                                   !.executor = tool_to_skill[tcall.name]]
    /\ UNCHANGED <<skills, tool_to_skill, registrations>>

\* The ToolResult goes back to the loop.
ToolReturn ==
    /\ tcall.pc \in {"unknown", "denied", "executed"}
    /\ tcall' = IdleToolCall
    /\ UNCHANGED <<skills, tool_to_skill, registrations>>

\* ------------------------------------------------------------------------
\* Specifications
\* ------------------------------------------------------------------------

\* The variables of the scheduler, the security engine, the skill manager
\* and the agent loop.
coreVars == <<schedVars, secVars, skillVars, agentVars>>

\* The variables of the other components.
extVars == <<busVars, routerVars, cliVars, workerVars, engineVars,
            registryVars, escalationVars, kernelVars, virtualVars, composerVars,
            skillRegVars>>

\* What the steps of one component leave unchanged.
schedRest == <<secVars, skillVars, agentVars, busVars, routerVars, cliVars,
               workerVars, registryVars,
    escalationVars, kernelVars,
    virtualVars,
    composerVars,
    skillRegVars>>

busRest == <<coreVars, routerVars, cliVars, workerVars, engineVars,
             registryVars,
    escalationVars, kernelVars,
    virtualVars,
    composerVars,
    skillRegVars>>

routerRest == <<coreVars, busVars, cliVars, workerVars, engineVars,
                registryVars,
    escalationVars, kernelVars,
    virtualVars,
    composerVars,
    skillRegVars>>

cliRest == <<coreVars, busVars, routerVars, workerVars, engineVars,
             registryVars,
    escalationVars, kernelVars,
    virtualVars,
    composerVars,
    skillRegVars>>

workerRest == <<coreVars, busVars, routerVars, cliVars, engineVars,
                registryVars,
    escalationVars, kernelVars,
    virtualVars,
    composerVars,
    skillRegVars>>

registryRest == <<coreVars, busVars, routerVars, cliVars, workerVars,
                  engineVars,
    escalationVars, kernelVars,
    virtualVars,
    composerVars,
    skillRegVars>>

escalationRest == <<coreVars, busVars, routerVars, cliVars, workerVars,
                    engineVars, registryVars, kernelVars,
    virtualVars,
    composerVars,
    skillRegVars>>

kernelRest == <<coreVars, busVars, routerVars, cliVars, workerVars,
                engineVars, registryVars, escalationVars,
    virtualVars,
    composerVars,
    skillRegVars>>

virtualRest == <<coreVars, busVars, routerVars, cliVars,
    workerVars, engineVars, registryVars, escalationVars, kernelVars,
    composerVars,
    skillRegVars>>

composerRest == <<coreVars, busVars, routerVars, cliVars,
    workerVars, engineVars, registryVars, escalationVars, kernelVars,
    virtualVars,
    skillRegVars>>

skillRegRest == <<coreVars, busVars, routerVars, cliVars,
    workerVars, engineVars, registryVars, escalationVars, kernelVars,
    virtualVars, composerVars>>

\* The other components before anything has used them.
ExtInit ==
    /\ BusInit /\ RouterInit /\ CliInit /\ WorkerInit /\ EngineStarted
    /\ RegistryInit /\ EscalationInit /\ KernelInit
    /\ VirtualInit
    /\ ComposerIdle
    /\ SkillRegInit

vars == <<coreVars, extVars>>

SchedNext ==
    \/ Advance /\ UNCHANGED <<secVars, skillVars, agentVars, extVars>>
    \/ TickStart /\ UNCHANGED <<secVars, skillVars, agentVars, extVars>>
    \/ TickRead /\ UNCHANGED <<secVars, skillVars, agentVars, extVars>>
    \/ TickResume /\ UNCHANGED <<secVars, skillVars, agentVars, extVars>>
    \/ \E i \in 1..Len(fires) : FireStart(i) /\ UNCHANGED <<secVars, skillVars, agentVars, extVars>>
    \/ \E i \in 1..Len(fires) : FireRun(i) /\ UNCHANGED <<secVars, skillVars, agentVars, extVars>>
    \/ \E i \in 1..Len(fires) : FirePersist(i) /\ UNCHANGED <<secVars, skillVars, agentVars, extVars>>
    \/ \E i \in 1..Len(fires) : FireRelease(i) /\ UNCHANGED <<secVars, skillVars, agentVars, extVars>>
    \/ \E i \in 1..Len(fires) : FireRoute(i) /\ UNCHANGED <<secVars, skillVars, agentVars, extVars>>

\* The scheduler engine running against its store.
SchedSpecInit == SchedInit /\ SecDefault /\ SkillInit /\ AgentIdle /\ ExtInit

SchedSpec == SchedSpecInit /\ [][SchedNext]_vars

RestartNext ==
    \/ Advance /\ UNCHANGED <<engineVars, schedRest>>
    \/ EngineStart /\ UNCHANGED schedRest
    \/ \E j \in JobIds : CreateJob(j) /\ UNCHANGED schedRest
    \/ ProcessExit /\ UNCHANGED schedRest
    \/ TickStart /\ UNCHANGED <<engineVars, schedRest>>
    \/ TickRead /\ UNCHANGED <<engineVars, schedRest>>
    \/ TickResume /\ Len(fires') <= MaxRunFires /\ UNCHANGED <<engineVars, schedRest>>
    \/ \E i \in 1..Len(fires) : FireStart(i) /\ UNCHANGED <<engineVars, schedRest>>
    \/ \E i \in 1..Len(fires) : FireRun(i) /\ UNCHANGED <<engineVars, schedRest>>
    \/ \E i \in 1..Len(fires) : FirePersist(i) /\ UNCHANGED <<engineVars, schedRest>>
    \/ \E i \in 1..Len(fires) : FireRelease(i) /\ UNCHANGED <<engineVars, schedRest>>
    \/ \E i \in 1..Len(fires) : FireRoute(i) /\ UNCHANGED <<engineVars, schedRest>>

RestartSpecInit ==
    /\ RestartInit /\ SecDefault /\ SkillInit /\ AgentIdle
    /\ BusInit /\ RouterInit /\ CliInit /\ WorkerInit /\ RegistryInit
    /\ EscalationInit /\ KernelInit
    /\ VirtualInit
    /\ ComposerIdle
    /\ SkillRegInit

\* The job store over several runs of the process: jobs are created while
\* it runs, time passes while it is down, and each run of the process
\* creates at most MaxRunFires fires.
RestartSpec == RestartSpecInit /\ [][RestartNext]_vars

SecNext ==
    \/ \E k \in Callers, t \in ToolNames :
          CheckAndApproveStart(k, t) /\ UNCHANGED <<schedVars, skillVars, agentVars, extVars>>
    \/ \E id \in RequestIds, r \in Responses :
          ResolveApproval(id, r) /\ UNCHANGED <<schedVars, skillVars, agentVars, extVars>>
    \/ \E k \in Callers : ApprovalTimeout(k) /\ UNCHANGED <<schedVars, skillVars, agentVars, extVars>>
    \/ \E k \in Callers : TimeoutResume(k) /\ UNCHANGED <<schedVars, skillVars, agentVars, extVars>>
    \/ \E k \in Callers : ApprovalResume(k) /\ UNCHANGED <<schedVars, skillVars, agentVars, extVars>>
    \/ \E k \in Callers : TakeDecision(k) /\ UNCHANGED <<schedVars, skillVars, agentVars, extVars>>

\* The security engine used by concurrent callers and a resolving platform.
SecSpecInit == SecInit /\ SchedInit /\ SkillInit /\ AgentIdle /\ ExtInit

SecSpec == SecSpecInit /\ [][SecNext]_vars

SkillNext ==
    \/ \E a \in SkillAgents, t \in CallableNames :
          ExecuteToolStart(a, t) /\ UNCHANGED <<schedVars, secVars, agentVars, extVars>>
    \/ \E a \in SkillAgents : ActivateDone(a) /\ UNCHANGED <<schedVars, secVars, agentVars, extVars>>
    \/ \E a \in SkillAgents : ActivateFail(a) /\ UNCHANGED <<schedVars, secVars, agentVars, extVars>>
    \/ \E a \in SkillAgents, ok \in BOOLEAN :
          ExecuteDone(a, ok) /\ UNCHANGED <<schedVars, secVars, agentVars, extVars>>
    \/ \E a \in SkillAgents : TakeResult(a) /\ UNCHANGED <<schedVars, secVars, agentVars, extVars>>

SkillSpecInit == SkillInit /\ SchedInit /\ SecDefault /\ AgentIdle /\ ExtInit

\* The skill manager shared by the main agent and a background agent.
SkillSpec == SkillSpecInit /\ [][SkillNext]_vars

\* The decisions the CLI passes to resolve_approval.
CliDecisions == {"allow_once", "allow_always", "deny", "deny_always"}

\* The CLI's approval handler: the user's answer to the request that was
\* emitted arrives, once, before or after the timeout.
CliAnswer(r) ==
    /\ call["main"].req > 0
    /\ lastResolve.id # call["main"].req
    /\ ResolveApproval(call["main"].req, r)

\* The steps of the main agent's run and of what it waits for: the LLM, the
\* approval flow and the skill.
AgentProgress ==
    \/ RunStart /\ UNCHANGED <<schedVars, extVars>>
    \/ LoopIterate /\ UNCHANGED <<schedVars, extVars>>
    \/ LoopExhausted /\ UNCHANGED <<schedVars, extVars>>
    \/ \E ans \in LlmAnswers : LlmAnswer(ans) /\ UNCHANGED <<schedVars, extVars>>
    \/ LlmError /\ UNCHANGED <<schedVars, extVars>>
    \/ ToolBegin /\ UNCHANGED <<schedVars, extVars>>
    \/ ToolDecide /\ UNCHANGED <<schedVars, extVars>>
    \/ ToolFinish /\ UNCHANGED <<schedVars, extVars>>
    \/ \E ans \in LlmAnswers : SynthesisAnswer(ans) /\ UNCHANGED <<schedVars, extVars>>
    \/ ApprovalTimeout("main") /\ UNCHANGED <<schedVars, skillVars, agentVars, extVars>>
    \/ TimeoutResume("main") /\ UNCHANGED <<schedVars, skillVars, agentVars, extVars>>
    \/ ApprovalResume("main") /\ UNCHANGED <<schedVars, skillVars, agentVars, extVars>>
    \/ ActivateDone("main") /\ UNCHANGED <<schedVars, secVars, agentVars, extVars>>
    \/ ActivateFail("main") /\ UNCHANGED <<schedVars, secVars, agentVars, extVars>>
    \/ \E ok \in BOOLEAN :
          ExecuteDone("main", ok) /\ UNCHANGED <<schedVars, secVars, agentVars, extVars>>

AgentNext ==
    \/ AgentProgress
    \/ \E r \in CliDecisions :
          CliAnswer(r) /\ UNCHANGED <<schedVars, skillVars, agentVars, extVars>>

AgentSpecInit == AgentInit /\ SecDefault /\ SkillInit /\ SchedInit /\ ExtInit

\* One run of the main agent with its security engine, its skill manager,
\* the LLM and the platform that resolves approvals.
AgentSpec == AgentSpecInit /\ [][AgentNext]_vars

\* The same run on an event loop that keeps running what is ready: the
\* coroutine of run(), the approval timeout, the LLM's and the skill's answer.
AgentLiveSpec == AgentSpecInit /\ [][AgentNext]_vars /\ WF_vars(AgentProgress)

\* The core components before anything has used them.
CoreIdle == SchedInit /\ SecDefault /\ SkillInit /\ AgentIdle

BusNext ==
    \/ \E p \in BusPatterns, h \in Subscribable : On(p, h) /\ UNCHANGED busRest
    \/ \E p \in BusPatterns, h \in HandlerObjects : Off(p, h) /\ UNCHANGED busRest
    \/ \E mw \in MiddlewareIds : Use(mw) /\ UNCHANGED busRest
    \/ \E t \in BusEventTypes : EmitStart(t) /\ UNCHANGED busRest
    \/ MiddlewareEnter /\ UNCHANGED busRest
    \/ Dispatch /\ UNCHANGED busRest
    \/ \E i \in 1..Len(hstate) : HandlerInvoke(i) /\ UNCHANGED busRest
    \/ \E i \in 1..Len(hstate) : HandlerEnd(i) /\ UNCHANGED busRest
    \/ GatherDone /\ UNCHANGED busRest
    \/ MiddlewareExit /\ UNCHANGED busRest
    \/ EmitReturn /\ UNCHANGED busRest

BusSpecInit == CoreIdle /\ ExtInit

\* The event bus under on, off and use calls and one emit at a time.
BusSpec == BusSpecInit /\ [][BusNext]_vars

RouterNext ==
    \/ \E c \in ChannelNames : Register(c) /\ UNCHANGED routerRest
    \/ \E c \in ChannelNames, b \in BOOLEAN :
          SetActive(c, b) /\ UNCHANGED routerRest
    \/ RouteStart /\ UNCHANGED routerRest
    \/ \E o \in DeliverOutcomes : ExternalStep(o) /\ UNCHANGED routerRest
    \/ ExternalDone /\ UNCHANGED routerRest
    \/ \E o \in DeliverOutcomes : CliStep(o) /\ UNCHANGED routerRest
    \/ CliDone /\ UNCHANGED routerRest
    \/ \E o \in DeliverOutcomes : FileStep(o) /\ UNCHANGED routerRest
    \/ RouteReturn /\ UNCHANGED routerRest

RouterSpecInit == CoreIdle /\ ExtInit

\* The notification router routing one notification at a time while
\* channels become active and inactive.
RouterSpec == RouterSpecInit /\ [][RouterNext]_vars

CliNext ==
    \/ CliRun /\ UNCHANGED cliRest
    \/ QueuePut /\ UNCHANGED cliRest
    \/ TurnStart /\ UNCHANGED cliRest
    \/ TurnEnd /\ UNCHANGED cliRest
    \/ WatcherDrain /\ UNCHANGED cliRest
    \/ CliExit /\ UNCHANGED cliRest

CliSpecInit == CoreIdle /\ ExtInit

\* One CLI session: the prompt loop, the watcher task and the channel
\* that fills the pending queue.
CliSpec == CliSpecInit /\ [][CliNext]_vars

\* The steps of the background tasks themselves.
WorkerProgress ==
    \/ \E w \in WorkerIds, outcome \in {"built", "raise"} :
           BuildAgent(w, outcome) /\ UNCHANGED workerRest
    \/ \E w \in WorkerIds, err \in {"none", "timeout", "exception"} :
           RunReturns(w, err) /\ UNCHANGED workerRest
    \/ \E w \in WorkerIds :
           EmitTaskComplete(w) /\ UNCHANGED workerRest
    \/ \E w \in WorkerIds :
           RouteResult(w) /\ UNCHANGED workerRest

WorkerNext ==
    \/ WorkerProgress
    \/ \E w \in WorkerIds :
           DelegateStart(w) /\ UNCHANGED workerRest
    \/ \E w \in WorkerIds :
           DelegateTask(w) /\ UNCHANGED workerRest
    \/ \E w \in WorkerIds :
           CancelWorker(w) /\ UNCHANGED workerRest

WorkerSpecInit == CoreIdle /\ ExtInit

\* The background workers of delegate_task, each running to its end
\* unless it is cancelled: the event loop runs every task that is ready.
WorkerLiveSpec == WorkerSpecInit /\ [][WorkerNext]_vars /\ WF_vars(WorkerProgress)

RegistryNext ==
    \/ \E key \in WorkerKeys, t \in TaskIds :
          RegisterWorker(key, t) /\ UNCHANGED registryRest
    \/ \E key \in WorkerKeys : RegistryCancelWorker(key) /\ UNCHANGED registryRest
    \/ SchedulerStopped /\ UNCHANGED registryRest
    \/ KernelStopped /\ UNCHANGED registryRest
    \/ \E t \in TaskIds : TaskDone(t) /\ UNCHANGED registryRest
    \/ \E e \in ExpertNames : RegisterExpert(e) /\ UNCHANGED registryRest
    \/ ShutdownStart /\ UNCHANGED registryRest
    \/ GatherReturns /\ UNCHANGED registryRest
    \/ StopEntry /\ UNCHANGED registryRest

RegistrySpecInit == CoreIdle /\ ExtInit

\* The agent registry while tasks are registered and end and shutdown_all
\* is called.
RegistrySpec == RegistrySpecInit /\ [][RegistryNext]_vars

EscalationNext ==
    \/ \E a \in Askers : AskManager(a) /\ UNCHANGED escalationRest
    \/ \E a \in Askers : AskWait(a) /\ UNCHANGED escalationRest
    \/ \E i \in EscalationIds, x \in EscalationAnswers :
          ResolveEscalation(i, x) /\ UNCHANGED escalationRest
    \/ \E a \in Askers : AskTimeout(a) /\ UNCHANGED escalationRest
    \/ \E a \in Askers : AskTimeoutResume(a) /\ UNCHANGED escalationRest
    \/ \E a \in Askers : AskResume(a) /\ UNCHANGED escalationRest

\* What the event loop runs without anybody's doing: the asking coroutine
\* and the timer of its wait_for.
AskProgress ==
    \/ \E a \in Askers : AskWait(a) /\ UNCHANGED escalationRest
    \/ \E a \in Askers : AskTimeout(a) /\ UNCHANGED escalationRest
    \/ \E a \in Askers : AskTimeoutResume(a) /\ UNCHANGED escalationRest
    \/ \E a \in Askers : AskResume(a) /\ UNCHANGED escalationRest

EscalationSpecInit == CoreIdle /\ ExtInit

\* The escalation bus with agents that ask and a platform that answers,
\* late, twice, or not at all.
EscalationSpec == EscalationSpecInit /\ [][EscalationNext]_vars

\* The same on an event loop that keeps running what is ready.
EscalationLiveSpec ==
    EscalationSpecInit /\ [][EscalationNext]_vars /\ WF_vars(AskProgress)

KernelNext ==
    \/ KernelStart /\ UNCHANGED kernelRest
    \/ KernelStop /\ UNCHANGED kernelRest
    \/ KernelGatherReturns /\ UNCHANGED kernelRest
    \/ KernelEmitReturns /\ UNCHANGED kernelRest
    \/ \E t \in KernelTasks : Spawn(t) /\ UNCHANGED kernelRest
    \/ \E t \in KernelTasks : KernelTaskDone(t) /\ UNCHANGED kernelRest

KernelSpecInit == CoreIdle /\ ExtInit

\* The kernel under one caller that makes start() and stop() calls one
\* after the other while tasks are spawned and end.
KernelSpec == KernelSpecInit /\ [][KernelNext]_vars

VirtualNext ==
    \/ RunCreate /\ UNCHANGED virtualRest
    \/ VirtualRunStart /\ UNCHANGED virtualRest
    \/ RunGet /\ UNCHANGED virtualRest
    \/ HandlerYield /\ UNCHANGED virtualRest
    \/ HandlerEnds /\ UNCHANGED virtualRest
    \/ RunCancelled /\ UNCHANGED virtualRest
    \/ VirtualStop /\ UNCHANGED virtualRest
    \/ \E kind \in HandlerKinds : SendMessage(kind) /\ UNCHANGED virtualRest
    \/ SendReturns /\ UNCHANGED virtualRest

VirtualSpecInit == CoreIdle /\ ExtInit

\* A virtual platform with one caller of send_message, a handler, and
\* somebody who starts, stops or cancels the run loop at any moment.
VirtualSpec == VirtualSpecInit /\ [][VirtualNext]_vars

ToolRouteNext ==
    \/ \E name \in RegisteredSkillNames, tools \in Manifests :
           RegisterSkill(name, tools) /\ UNCHANGED skillRegRest
    \/ \E name \in ManifestToolNames : ToolLookup(name) /\ UNCHANGED skillRegRest
    \/ \E allowed \in BOOLEAN : ToolChecked(allowed) /\ UNCHANGED skillRegRest
    \/ ToolReturn /\ UNCHANGED skillRegRest

ToolRouteSpecInit == CoreIdle /\ ExtInit

\* Skills are registered one after the other, and between registrations
\* the agent executes tool calls the LLM names.
ToolRouteSpec == ToolRouteSpecInit /\ [][ToolRouteNext]_vars

\* The steps of the fires that the event loop and the executor take.
FireProgress ==
    \/ \E i \in 1..Len(fires) : FireStart(i) /\ UNCHANGED <<secVars, skillVars, agentVars, extVars>>
    \/ \E i \in 1..Len(fires) : FireRun(i) /\ UNCHANGED <<secVars, skillVars, agentVars, extVars>>
    \/ \E i \in 1..Len(fires) : FirePersist(i) /\ UNCHANGED <<secVars, skillVars, agentVars, extVars>>
    \/ \E i \in 1..Len(fires) : FireRelease(i) /\ UNCHANGED <<secVars, skillVars, agentVars, extVars>>
    \/ \E i \in 1..Len(fires) : FireRoute(i) /\ UNCHANGED <<secVars, skillVars, agentVars, extVars>>

\* The scheduler on an event loop that keeps running the fires.
SchedLiveSpec == SchedSpecInit /\ [][SchedNext]_vars /\ WF_vars(FireProgress)

FireCancelNext ==
    \/ Advance /\ UNCHANGED <<secVars, skillVars, agentVars, extVars>>
    \/ TickStart /\ UNCHANGED <<secVars, skillVars, agentVars, extVars>>
    \/ TickRead /\ UNCHANGED <<secVars, skillVars, agentVars, extVars>>
    \/ TickResume /\ Len(fires') <= MaxRunFires /\ UNCHANGED <<secVars, skillVars, agentVars, extVars>>
    \/ \E i \in 1..Len(fires) : FireStart(i) /\ UNCHANGED <<secVars, skillVars, agentVars, extVars>>
    \/ \E i \in 1..Len(fires) : FireRun(i) /\ UNCHANGED <<secVars, skillVars, agentVars, extVars>>
    \/ \E i \in 1..Len(fires) : FirePersist(i) /\ UNCHANGED <<secVars, skillVars, agentVars, extVars>>
    \/ \E i \in 1..Len(fires) : FireRelease(i) /\ UNCHANGED <<secVars, skillVars, agentVars, extVars>>
    \/ \E i \in 1..Len(fires) : FireRoute(i) /\ UNCHANGED <<secVars, skillVars, agentVars, extVars>>
    \/ \E i \in 1..Len(fires) : FireCancelled(i) /\ UNCHANGED <<secVars, skillVars, agentVars, extVars>>
    \/ \E i \in 1..Len(fires) : FireRaises(i) /\ UNCHANGED <<secVars, skillVars, agentVars, extVars>>

\* The scheduler with fires that may be cancelled and whose completion
\* event or store call may raise, at most MaxRunFires fires in all.
FireCancelSpec ==
    SchedSpecInit /\ [][FireCancelNext]_vars /\ WF_vars(FireProgress)

AwaitCancelNext ==
    \/ \E k \in Callers, t \in ToolNames :
          CheckAndApproveStart(k, t) /\ UNCHANGED <<schedVars, skillVars, agentVars, extVars>>
    \/ \E id \in RequestIds, r \in {"allow_once", "deny"} :
          ResolveApproval(id, r) /\ UNCHANGED <<schedVars, skillVars, agentVars, extVars>>
    \/ \E k \in Callers : ApprovalResume(k) /\ UNCHANGED <<schedVars, skillVars, agentVars, extVars>>
    \/ \E k \in Callers : TakeDecision(k) /\ UNCHANGED <<schedVars, skillVars, agentVars, extVars>>
    \/ \E k \in Callers : ApprovalWaitCancelled(k) /\ UNCHANGED <<schedVars, skillVars, agentVars, extVars>>
    \/ \E k \in Callers : ApprovalCancelResume(k) /\ UNCHANGED <<schedVars, skillVars, agentVars, extVars>>
    \/ \E a \in {"w1"} : AskManager(a) /\ UNCHANGED escalationRest
    \/ \E a \in {"w1"} : AskWait(a) /\ UNCHANGED escalationRest
    \/ \E i \in EscalationIds, x \in EscalationAnswers :
          ResolveEscalation(i, x) /\ esc_log = <<>> /\ UNCHANGED escalationRest
    \/ \E a \in {"w1"} : AskResume(a) /\ UNCHANGED escalationRest
    \/ \E a \in {"w1"} : AskCancelled(a) /\ UNCHANGED escalationRest

AwaitCancelSpecInit == CoreIdle /\ ExtInit

\* The approval flow and the escalation bus with one waiting task each,
\* cancelled before or after somebody answers; one resolve_escalation call
\* is made.
AwaitCancelSpec == AwaitCancelSpecInit /\ [][AwaitCancelNext]_vars

ComposerNext == Compose /\ UNCHANGED composerRest

ComposerSpecInit ==
    /\ CoreIdle
    /\ BusInit /\ RouterInit /\ CliInit /\ WorkerInit /\ EngineStarted
    /\ RegistryInit /\ EscalationInit /\ KernelInit /\ VirtualInit
    /\ ComposerInit
    /\ SkillRegInit

\* compose applied to every session, budget and window of the bounds.
ComposerSpec == ComposerSpecInit /\ [][ComposerNext]_vars

\* ------------------------------------------------------------------------
\* Security engine and approval flow: properties
\* ------------------------------------------------------------------------

\* C3: check_and_approve never returns allowed=true for a tool one of whose
\* required capabilities is in never_allow.
C3_NeverAllowDenied ==
    \A k \in Callers :
        (call[k].pc = "returned" /\ ToolCaps(call[k].tool) \cap never_allow # {})
            => ~call[k].decision.allowed

\* The outcome the highest-ranked applicable layer prescribes for (tool, c).
LayerOutcome(tool, c) ==
    CASE c \in never_allow ->
            [allowed |-> FALSE, requires_approval |-> FALSE, remembered |-> FALSE]
      [] c \notin never_allow /\ remembered[<<tool, c>>] = "allow_always" ->
            [allowed |-> TRUE, requires_approval |-> FALSE, remembered |-> TRUE]
      [] c \notin never_allow /\ remembered[<<tool, c>>] = "deny_always" ->
            [allowed |-> FALSE, requires_approval |-> FALSE, remembered |-> TRUE]
      [] c \notin never_allow /\ remembered[<<tool, c>>] = "none"
            /\ c \in auto_allow ->
            [allowed |-> TRUE, requires_approval |-> FALSE, remembered |-> FALSE]
      [] OTHER ->
            [allowed |-> FALSE, requires_approval |-> TRUE, remembered |-> FALSE]

\* C4: in every reachable configuration and memory of decisions, the decision
\* for a (tool, capability) pair is the one of the highest-ranked layer that
\* applies: never_allow, then the remembered decision, then auto_allow, then
\* always_ask, then unknown.
C4_LayerPrecedence ==
    \A tool \in ToolNames : \A c \in Caps :
        LET d == CheckCapability(tool, c)
            o == LayerOutcome(tool, c)
        IN  /\ d.allowed = o.allowed
            /\ d.requires_approval = o.requires_approval
            /\ d.remembered = o.remembered

\* C4 witness: a remembered deny_always stands against an auto_allow entry
\* for the same capability.
C4_Witness ==
    \E tool \in ToolNames : \E c \in Caps :
        /\ c \notin never_allow
        /\ c \in auto_allow
        /\ remembered[<<tool, c>>] = "deny_always"

\* C5: a resolve_approval call returns true exactly when its id is pending
\* with an undone future, and then completes the future; a call that returns
\* false changes nothing; so at most one response is accepted per request and
\* the decision returned for the request is the one of that response.
C5_SingleResolution ==
    /\ [](\A id \in RequestIds : Len(accepted[id]) <= 1)
    /\ [](\A k \in Callers :
            (call[k].pc = "returned" /\ call[k].req > 0
                /\ accepted[call[k].req] # <<>>)
            => call[k].decision = ResponseToDecision(accepted[call[k].req][1]))
    /\ [][resolves' # resolves =>
            LET id == lastResolve'.id
            IN  /\ lastResolve'.ret <=> (id \in pending /\ future[id] = "pending")
                /\ lastResolve'.ret => future'[id] \in Responses
                /\ ~lastResolve'.ret =>
                      UNCHANGED <<future, pending, call, remembered, accepted>>]_vars

\* C5 witness: a second resolve_approval for a request arrived while its
\* resolved future had not been consumed yet, and returned false.
C5_Witness ==
    \E k \in Callers :
        /\ call[k].pc = "waiting"
        /\ future[call[k].req] \in Responses
        /\ lastResolve = [id |-> call[k].req, saw |-> "done", ret |-> FALSE]

\* C6: a request that ends with no accepted response ends by timeout: the
\* call returns the approval_timeout denial with the pending entry removed,
\* a resolve_approval that finds the future cancelled or the entry gone
\* returns false, and a returned decision is never changed.
C6_TimeoutDenies ==
    /\ [](\A k \in Callers :
            /\ call[k].pc = "timed_out" =>
                  /\ future[call[k].req] = "cancelled"
                  /\ accepted[call[k].req] = <<>>
            /\ (call[k].pc = "returned" /\ call[k].req > 0
                    /\ accepted[call[k].req] = <<>>) =>
                  /\ call[k].decision = TimeoutDenial
                  /\ call[k].req \notin pending)
    /\ [][/\ (resolves' # resolves
                /\ future[lastResolve'.id] \in {"cancelled", "dropped"})
                => ~lastResolve'.ret
           /\ \A k \in Callers :
                (call[k].pc = "returned" /\ call'[k].pc = "returned")
                    => call'[k].decision = call[k].decision]_vars

\* C6 witness: after the timeout cancelled the future, and before the waiting
\* task popped the entry, a resolve_approval for the request returned false.
C6_Witness ==
    \E k \in Callers :
        /\ call[k].pc = "timed_out"
        /\ lastResolve = [id |-> call[k].req, saw |-> "done", ret |-> FALSE]

\* C7: a check_and_approve of a tool that starts after an approval of that
\* tool was answered allow_always or deny_always emits no security:approval
\* event and returns a decision with remembered=true.
C7_RememberedAfterAlways ==
    \A k \in Callers :
        call[k].after =>
            /\ ~call[k].emitted
            /\ call[k].pc = "returned" => call[k].decision.remembered

\* ------------------------------------------------------------------------
\* Scheduler: properties
\* ------------------------------------------------------------------------

\* The fires of job j that hold the in-flight guard.
GuardedFires(j) ==
    { i \in 1..Len(fires) : fires[i].job = j /\ fires[i].pc \in GuardedPcs }

OneGuardedFirePerJob ==
    \A j \in JobIds : Cardinality(GuardedFires(j)) <= 1

\* Job j's row shows what a fire of j that still holds the guard had to
\* persist: the job is deleted, or carries the fire's last_run and next_run.
Persisted(j) ==
    \/ ~store[j].exists
    \/ \E i \in GuardedFires(j) :
          /\ fires[i].now > 0
          /\ store[j].last_run = fires[i].now
          /\ store[j].next_run =
                NextFireTime(JobTrigger(j), fires[i].now, fires[i].now)

\* C1: under every interleaving of ticks and fires, at most one _fire_job
\* per job id holds the in-flight guard, and a job id leaves the in-flight
\* set only in a state where that fire's new next_run (or the job's
\* deletion) is already in the store.
C1_GuardedFire ==
    /\ []OneGuardedFirePerJob
    /\ [][\A j \in JobIds :
            (j \in in_flight /\ j \notin in_flight') => Persisted(j)]_vars

\* C1 witness: a job fired, persisted and released, and a later tick has
\* put it in flight again while the first task is still routing.
C1_Witness ==
    \E i, k \in 1..Len(fires) :
        /\ fires[i].job = fires[k].job
        /\ fires[i].pc = "routing"
        /\ fires[k].pc = "running"
        /\ fires[k].job \in in_flight

\* C2: no two fires of one job were started for the same next_run value.
C2_FiredOncePerNextRun ==
    \A i, k \in 1..Len(fires) :
        (i # k /\ fires[i].job = fires[k].job) => fires[i].due # fires[k].due

\* The fires whose run failed (LLM error, sub-agent timeout or exception)
\* and whose store call has returned.
FailedAndPersisted ==
    { i \in 1..Len(fires) :
        fires[i].error /\ fires[i].pc \in {"persisted", "routing", "done"} }

OneshotFires == { i \in 1..Len(fires) : fires[i].job = "j2" }

\* C28: the one-shot job fires at most once: after its fire, or once the
\* clock has passed its `at` time, its trigger returns 0, the job is
\* deleted by its fire, and no later tick fires it again.
C28_OneshotFiresOnce ==
    /\ \A t \in 0..MaxTime :
          /\ t > 0 => OneshotNext(OneshotAt, t, t) = 0
          /\ t > OneshotAt => OneshotNext(OneshotAt, 0, t) = 0
    /\ \A i \in OneshotFires :
          fires[i].pc \in {"persisted", "routing", "done"}
              => ~store["j2"].exists
    /\ Cardinality(OneshotFires) <= 1

StaleAtStart ==
    { j \in JobIds : /\ store[j].exists
                     /\ store[j].active
                     /\ (store[j].next_run = 0 \/ store[j].next_run < now) }

\* C29: the startup pass gives every active job whose next_run is 0 or in
\* the past a next_run computed from the current time (for an interval
\* job the current time plus its period, whatever its last_run), and no
\* fire of the started process is for a time before its start.
C29_NoReplayAfterStart ==
    /\ [][(~sched_running /\ sched_running') =>
            \A j \in StaleAtStart :
                /\ store'[j].next_run = NextFireTime(JobTrigger(j), now, now)
                /\ store'[j].next_run = 0 \/ store'[j].next_run > now
                /\ JobTrigger(j).type = "interval"
                      => store'[j].next_run = now + JobTrigger(j).seconds]_vars
    /\ [](\A i \in 1..Len(fires) : fires[i].due >= startedAt)

\* The process was down over a fire time of the interval job; after the
\* restart the job has fired for the time the startup pass gave it.
C29_Witness ==
    /\ startedAt > ClockStep
    /\ \E i \in 1..Len(fires) :
          /\ fires[i].job = "j1"
          /\ fires[i].due = startedAt + IntervalSeconds
          /\ fires[i].pc = "done"

\* ------------------------------------------------------------------------
\* Skill manager: properties
\* ------------------------------------------------------------------------

\* C8: no skill's activate() runs to completion more than once, and a skill
\* whose execute_tool is running is in the activated set.
C8_ActivatedOnce ==
    /\ \A s \in SkillNames : activations[s] <= 1
    /\ \A a \in SkillAgents :
          skCall[a].pc = "executing" => ToolToSkill(skCall[a].tool) \in activated

\* ------------------------------------------------------------------------
\* Agent loop: properties
\* ------------------------------------------------------------------------

\* The main agent's tool call is handed to skill_manager.execute_tool in
\* this step.
HandedToSkill ==
    skCall["main"].pc = "idle" /\ skCall'["main"].pc # "idle"

\* The main agent takes a denial from check_and_approve in this step.
TakesDenial ==
    /\ call["main"].pc = "returned"
    /\ call'["main"].pc = "idle"
    /\ ~call["main"].decision.allowed

\* C9: a tool call is handed to skill_manager.execute_tool only if
\* check_and_approve returned allowed=true for it; on a denial
\* security:denied is emitted, no skill:tool_call is emitted, the skill is
\* not executed, and a failure result carrying the reason is appended.
C9_DeniedNotExecuted ==
    [][ /\ HandedToSkill =>
            /\ call["main"].pc = "returned"
            /\ call["main"].decision.allowed
            /\ call["main"].tool = skCall'["main"].tool
            /\ call["main"].tool = toolQueue[toolIdx].name
        /\ TakesDenial =>
            /\ events' = Append(events,
                               <<"security:denied", toolQueue[toolIdx].name>>)
            /\ UNCHANGED skillVars
            /\ memory' = Append(memory,
                   Message("tool", toolQueue[toolIdx].name, <<>>,
                           <<"Error", "Permission denied">>
                               \o call["main"].decision.reason,
                           toolQueue[toolIdx].id))
            /\ agPc' \in {"tool", "loop"}
      ]_vars

\* A denial was the last thing the run recorded, and the skill manager has
\* never been called.
C9_Witness ==
    /\ Len(events) > 0
    /\ events[Len(events)][1] = "security:denied"
    /\ memory[Len(memory)].role = "tool"
    /\ memory[Len(memory)].content[2] = "Permission denied"
    /\ skCall["main"].pc = "idle"
    /\ activated = {}

\* The generate calls that were given tools.
ToolEnabledCalls == { i \in 1..Len(llmCalls) : llmCalls[i].tools # {"None"} }

\* The LLM answered every tool-enabled call with tool_use.
AlwaysToolUse == \A i \in ToolEnabledCalls : llmCalls[i].stop = "tool_use"

\* The run is over and made max_iterations tool-enabled calls followed by
\* one call with tools=None, yielded that call's text after the separator,
\* and emitted agent:complete with reason max_iterations last.
EndedOnLimit ==
    /\ Len(llmCalls) = max_iterations + 1
    /\ ToolEnabledCalls = 1..max_iterations
    /\ iteration = max_iterations
    /\ events[Len(events)] = <<"agent:complete", "max_iterations">>
    /\ { i \in 1..Len(events) : events[i][1] = "agent:complete" } = {Len(events)}
    /\ LET last == llmCalls[Len(llmCalls)]
       IN  IF last.text
           THEN /\ Len(yielded) >= 2
                /\ yielded[Len(yielded)] = "synthesis_text"
                /\ yielded[Len(yielded) - 1] = "separator"
           ELSE /\ Len(yielded) >= 1
                /\ yielded[Len(yielded)] = "separator"

AssistantWithCalls ==
    { i \in 1..Len(memory) :
          memory[i].role = "assistant" /\ memory[i].calls # <<>> }

\* The number of tool messages that follow message i without a gap.
ResultsAfter(i) ==
    Cardinality({ k \in 1..(Len(memory) - i) :
                      \A m \in 1..k : memory[i + m].role = "tool" })

\* The first n messages after assistant message i are the results of its
\* first n tool calls, in order and with the calls' ids and names.
ResultsMatch(i, n) ==
    \A p \in 1..n :
        /\ i + p <= Len(memory)
        /\ memory[i + p].role = "tool"
        /\ memory[i + p].tool_call_id = memory[i].calls[p].id
        /\ memory[i + p].name = memory[i].calls[p].name

\* Assistant message i is followed by exactly one result per tool call.
ResultsComplete(i) ==
    /\ ResultsAfter(i) = Len(memory[i].calls)
    /\ ResultsMatch(i, Len(memory[i].calls))

\* The run is executing the tool calls of the last LLM response.
InToolCalls == agPc \in {"tool", "security", "skill"}

\* Memory and the tool call in progress agree with sequential execution:
\* tool messages stand only behind an assistant message with tool calls,
\* every such message but the one being worked on has all its results, the
\* one being worked on has those of the calls before toolIdx, and the
\* security engine and the skill manager work on call toolIdx only.
SequentialToolCalls ==
    /\ \A j \in 1..Len(memory) :
           memory[j].role = "tool" =>
               /\ j > 1
               /\ memory[j - 1].role = "tool" \/ (j - 1) \in AssistantWithCalls
    /\ \A i \in AssistantWithCalls :
           IF InToolCalls /\ \A k \in AssistantWithCalls : k <= i
           THEN /\ memory[i].calls = toolQueue
                /\ toolIdx \in 1..Len(toolQueue)
                /\ ResultsAfter(i) = toolIdx - 1
                /\ ResultsMatch(i, toolIdx - 1)
           ELSE ResultsComplete(i)
    /\ InToolCalls => AssistantWithCalls # {}
    /\ call["main"].pc # "idle" =>
           agPc = "security" /\ call["main"].tool = toolQueue[toolIdx].name
    /\ skCall["main"].pc # "idle" =>
           agPc = "skill" /\ skCall["main"].tool = toolQueue[toolIdx].name

\* C11: within one run the tool calls of an LLM response are executed one
\* at a time in the order the LLM produced them, and memory records the
\* assistant message carrying them followed by exactly one tool result per
\* call, in that order and with matching tool_call_id, before the next LLM
\* call is made.
C11_ToolCallsInOrder ==
    /\ []SequentialToolCalls
    /\ [][ Len(llmCalls') > Len(llmCalls) =>
               \A i \in AssistantWithCalls : ResultsComplete(i) ]_vars

\* The next LLM call has been made after a response with two tool calls,
\* whose two results stand behind it in memory.
C11_Witness ==
    /\ agPc \in {"llm", "synthesis"}
    /\ Len(llmCalls) = 2
    /\ Len(memory) = 4
    /\ Len(memory[2].calls) = 2
    /\ memory[3].tool_call_id = <<1, 1>>
    /\ memory[4].tool_call_id = <<1, 2>>

\* The number of events of a type the run has emitted.
EventCount(type) ==
    Cardinality({ i \in 1..Len(events) : events[i][1] = type })

\* The agent:thinking and llm:response events of the run, in order.
TurnEvents ==
    SelectSeq(events, LAMBDA e : e[1] \in {"agent:thinking", "llm:response"})

\* The run emitted agent:start first and once, agent:complete last and
\* once, and one agent:thinking followed by one llm:response per iteration.
NormalEventTrace ==
    /\ events[1] = <<"agent:start">>
    /\ EventCount("agent:start") = 1
    /\ events[Len(events)][1] = "agent:complete"
    /\ EventCount("agent:complete") = 1
    /\ EventCount("agent:error") = 0
    /\ Len(TurnEvents) = 2 * iteration
    /\ \A i \in 1..Len(TurnEvents) :
           TurnEvents[i][1] = IF i % 2 = 1 THEN "agent:thinking"
                              ELSE "llm:response"

\* The run emitted agent:start first and once, agent:error last and once,
\* and no agent:complete.
ErrorEventTrace ==
    /\ events[1] = <<"agent:start">>
    /\ EventCount("agent:start") = 1
    /\ events[Len(events)] = <<"agent:error">>
    /\ EventCount("agent:error") = 1
    /\ EventCount("agent:complete") = 0

\* Some generate call of the run raised.
LlmFailed == \E i \in 1..Len(llmCalls) : llmCalls[i].stop = "error"

\* C12: a run that ends normally emits exactly one agent:start, before any
\* other event, and exactly one agent:complete, last, with exactly one
\* agent:thinking and one llm:response per iteration in between; a run in
\* which the LLM stream fails emits agent:error, re-raises and emits no
\* agent:complete.
C12_EventTrace ==
    /\ agPc = "done" => NormalEventTrace /\ ~LlmFailed
    /\ agPc = "error" => ErrorEventTrace
    /\ LlmFailed => agPc = "error"

\* A run ended normally in its second iteration, after executed tool calls.
C12_Witness ==
    /\ agPc = "done"
    /\ iteration = 2
    /\ EventCount("skill:tool_result") > 0
    /\ events[Len(events)] = <<"agent:complete">>

\* ------------------------------------------------------------------------
\* Event bus: properties
\* ------------------------------------------------------------------------

\* A pattern matches a type when it is the type, is "*", or is a prefix
\* followed by "*" and the type starts with the prefix.
GlobMatches(pattern, event_type) ==
    \/ pattern = event_type
    \/ /\ pattern[Len(pattern)] = "*"
       /\ Len(event_type) >= Len(pattern) - 1
       /\ SubSeq(event_type, 1, Len(pattern) - 1)
              = SubSeq(pattern, 1, Len(pattern) - 1)

\* How many of the handlers dispatch found are function fn found under
\* pattern p.
FoundVia(found, p, fn) ==
    Cardinality({ i \in 1..Len(found) :
                      found[i].via = p /\ found[i].handler.fn = fn })

\* C13: for a (pattern, handler) subscription added exactly once, each emit
\* of an event whose type matches the pattern invokes the handler exactly
\* once through that pattern, and after off(pattern, handler) no later emit
\* invokes it through that pattern.
C13_SubscribedInvokedOnce ==
    [][ (emPc = "chain" /\ emPc' = "gather") =>
            \A p \in BusPatterns, fn \in HandlerFns :
                /\ (subscribed[p][fn] = 1 /\ GlobMatches(p, emType)) =>
                       FoundVia(handlers', p, fn) = 1
                /\ subscribed[p][fn] = 0 => FoundVia(handlers', p, fn) = 0
                /\ ~GlobMatches(p, emType) => FoundVia(handlers', p, fn) = 0
      ]_vars

\* The enter events of a list of middlewares, in order.
Enters(mws) == [i \in 1..Len(mws) |-> <<"enter", mws[i]>>]

\* The exit events of a list of middlewares, last first.
Exits(mws) == [i \in 1..Len(mws) |-> <<"exit", mws[Len(mws) + 1 - i]>>]

\* The position of the first middleware that does not call next, 0 when
\* all do.
FirstStop(mws) ==
    IF \A i \in 1..Len(mws) : CallsNext(mws[i]) THEN 0
    ELSE CHOOSE i \in 1..Len(mws) :
             /\ ~CallsNext(mws[i])
             /\ \A j \in 1..(i - 1) : CallsNext(mws[j])

\* emit is about to return.
EmitEnds == emPc = "unwind" /\ depth = 0

\* C14: with middlewares registered in the order [A, B, C], an emit
\* produces the trace A-enter, B-enter, C-enter, dispatch, C-exit, B-exit,
\* A-exit; if a middleware does not invoke next, no later middleware and
\* no handler runs for that event.
C14_MiddlewareOrder ==
    /\ EmitEnds =>
          LET k == FirstStop(emRegistered)
              entered == SubSeq(emRegistered, 1, k)
          IN  IF k = 0
              THEN trace = Enters(emRegistered) \o <<<<"dispatch">>>>
                               \o Exits(emRegistered)
              ELSE trace = Enters(entered) \o Exits(entered)
    /\ (\E i \in 1..Len(trace) : trace[i][1] = "enter" /\ ~CallsNext(trace[i][2])) =>
          /\ hstate = <<>>
          /\ \A i \in 1..Len(trace) : trace[i][1] # "dispatch"

\* An emit through [A, B, C] that dispatched to a handler is about to
\* return.
C14_Witness ==
    /\ EmitEnds
    /\ emRegistered = <<"A", "B", "C">>
    /\ Len(handlers) > 0

\* C15: when one handler of an event raises, every other matching handler
\* still runs to completion, the exception does not leave emit, and emit
\* returns only after all matching handlers have finished.
C15_HandlerErrorIsolated ==
    /\ emPc # "raised"
    /\ emPc = "unwind" =>
          \A i \in 1..Len(hstate) :
              hstate[i] = IF handlers[i].handler.fn = "bad" THEN "raised"
                          ELSE "done"

\* emit is about to return after one handler raised and another, invoked
\* after it, returned.
C15_Witness ==
    /\ EmitEnds
    /\ Len(hstate) = 2
    /\ hstate[1] = "raised"
    /\ hstate[2] = "done"

\* ------------------------------------------------------------------------
\* Notification router: properties
\* ------------------------------------------------------------------------

\* The places in deliveries where deliver of channel c was called.
Invoked(c) ==
    { i \in 1..Len(deliveries) :
          deliveries[i][1] = c /\ deliveries[i][2] # "inactive" }

\* The places in deliveries where route came to channel c.
CameTo(c) == { i \in 1..Len(deliveries) : deliveries[i][1] = c }

\* The CLI channels: neither external nor the file channel.
IsCli(c) == ~IsExternal(c) /\ c # "file"

\* Some external channel delivered among the first n entries of deliveries.
ExternalDeliveredBy(n) ==
    \E i \in 1..n : IsExternal(deliveries[i][1]) /\ deliveries[i][2] = "true"

\* The elements of a sequence.
Range(s) == { s[i] : i \in 1..Len(s) }

\* C16: for every routed notification the file channel is delivered to
\* exactly once; if an external channel delivered, no CLI channel is
\* invoked; a CLI channel is invoked only when no external channel
\* delivered and it is active.
C16_FileOnceCliFallback ==
    /\ []((rtPc = "returned" /\ "file" \in Range(channels)) =>
             Cardinality(Invoked("file")) = 1)
    /\ [](ExternalDeliveredBy(Len(deliveries)) =>
             \A c \in ChannelNames : IsCli(c) => Invoked(c) = {})
    /\ [][ \A c \in ChannelNames :
               (IsCli(c) /\ \E i \in Invoked(c)' : i \notin Invoked(c)) =>
                   /\ active[c]
                   /\ ~ExternalDeliveredBy(Len(deliveries))
                   /\ \A e \in Range(external_channels) : CameTo(e) # {}
         ]_vars

\* A notification was routed with the CLI active and registered: an
\* external channel delivered, the CLI was not invoked, the file was.
C16_Witness ==
    /\ rtPc = "returned"
    /\ "cli" \in Range(channels)
    /\ active["cli"]
    /\ ExternalDeliveredBy(Len(deliveries))
    /\ Invoked("cli") = {}
    /\ Cardinality(Invoked("file")) = 1

\* C17: a channel whose deliver raises is skipped and counted as not
\* delivered: route never raises and the remaining channels, the CLI
\* fallback and the file channel included, are still delivered to,
\* whichever channel fails.
C17_RaisingChannelSkipped ==
    /\ rtPc # "raised"
    /\ rtPc = "returned" =>
          /\ \A c \in Range(external_channels) : Cardinality(CameTo(c)) = 1
          /\ ~ExternalDeliveredBy(Len(deliveries)) =>
                 \A c \in Range(cli_channels) : Cardinality(CameTo(c)) = 1
          /\ \A c \in Range(file_channels) : Cardinality(Invoked(c)) = 1
          /\ \A i \in 1..Len(deliveries) :
                 deliveries[i][2] = "inactive" => deliveries[i][1] # "file"

\* A notification was routed through an external channel that raised, a
\* CLI channel that raised and the file channel.
C17_Witness ==
    /\ rtPc = "returned"
    /\ deliveries = <<<<"telegram", "raise">>, <<"cli", "raise">>,
                      <<"file", "true">>>>

\* ------------------------------------------------------------------------
\* CLI platform, pending queue: properties
\* ------------------------------------------------------------------------

\* The notifications taken off the queue so far, in the order taken.
TakenIds == [i \in 1..Len(consumed) |-> consumed[i].n]

\* The entries of consumed whose notification was put on the queue while
\* turn_in_progress was true.
PutDuringTurn == {i \in 1..Len(consumed) : enqueued[consumed[i].n].in_turn}

\* C18: a notification put on the pending queue while turn_in_progress is
\* true is taken by the drain at the start of the next user turn and is
\* part of that turn's message, never by the watcher.
C18_DrainedAtNextTurn ==
    \A i \in PutDuringTurn :
        /\ consumed[i].by = "drain"
        /\ consumed[i].turn = enqueued[consumed[i].n].turn + 1
        /\ \E k \in 1..Len(injected[consumed[i].turn]) :
               injected[consumed[i].turn][k] = consumed[i].n

\* Every notification put on the queue so far is either still on it or
\* was taken exactly once, and the order of taking is the order of
\* putting.
ConsumedOnceInOrder ==
    TakenIds \o pending_queue = [n \in 1..Len(enqueued) |-> n]

\* C19: the watcher takes nothing off the pending queue while
\* turn_in_progress is true, and every notification put on the queue is
\* taken exactly once, in FIFO order, by the watcher or by the drain at a
\* turn's start, or is still on the queue.
C19_TurnFlagIsMutex ==
    /\ []ConsumedOnceInOrder
    /\ [][\A i \in 1..Len(consumed') :
            (i > Len(consumed) /\ consumed'[i].by = "watcher")
                => ~turn_in_progress /\ ~turn_in_progress']_vars

\* A session in which a notification that arrived during a turn stayed
\* on the queue until the turn's end, and in which both the watcher and a
\* turn's drain have taken notifications.
C19_Witness ==
    /\ \E i \in 1..Len(consumed) : consumed[i].by = "watcher"
    /\ \E i \in 1..Len(consumed) : consumed[i].by = "drain"
    /\ \E n \in 1..Len(enqueued) : enqueued[n].in_turn
    /\ Len(consumed) = MaxNotifications

\* ------------------------------------------------------------------------
\* Background workers: properties
\* ------------------------------------------------------------------------

\* The worker's task is over and was not cancelled.
Ended(w) == wkPc[w] \in {"done", "escaped"}

\* The worker's task is spawned and neither over nor cancelled.
Live(w) == wkPc[w] \in {"attempt", "running", "emit", "route"}

\* C20: a worker that is not cancelled ends having emitted
\* agent:task_complete once and routed one notification, whether its
\* attempts succeeded, timed out or raised while the sub-agent was built
\* or run, and no exception ends its background task.
C20_WorkerAlwaysNotifies ==
    /\ [](\A w \in WorkerIds : wkPc[w] # "escaped")
    /\ [](\A w \in WorkerIds :
            Ended(w) => Len(task_complete[w]) = 1 /\ Len(routed[w]) = 1)
    /\ \A w \in WorkerIds :
           Live(w) ~> (wkPc[w] \in {"done", "cancelled"})

\* The notification of worker w reports success exactly when one of its
\* attempts ended without error.
ReportsOutcome(w) ==
    /\ Len(routed[w]) = 1
    /\ routed[w][1] = IF \E k \in 1..Len(attempts[w]) : attempts[w][k] = "none"
                      THEN "completed" ELSE "failed"

\* C21: a worker that ended without being cancelled made one attempt if
\* the first attempt succeeded and two if the first attempt failed, never
\* more, and its notification reports success if one of the attempts
\* succeeded and failure if both failed.
C21_RetriedExactlyOnce ==
    \A w \in WorkerIds :
        /\ Len(attempts[w]) <= 2
        /\ Ended(w) =>
              /\ Len(attempts[w]) = IF attempts[w][1] = "none" THEN 1 ELSE 2
              /\ ReportsOutcome(w)

\* C22: delegate_task returns while the worker's task has not taken a
\* step, with the task in the Agent Registry, and no step of the worker
\* is taken before the task was created.
C22_DelegateDoesNotWait ==
    /\ [][\A w \in WorkerIds :
            (delegated[w] # "returned" /\ delegated'[w] = "returned")
                => /\ wkPc'[w] = "attempt"
                   /\ attempts'[w] = <<>>
                   /\ w \in worker_tasks']_vars
    /\ [](\A w \in WorkerIds :
            delegated[w] # "returned" => wkPc[w] = "none")

\* delegate_task has returned for both workers: the first has run to its
\* end and the second has not taken a step yet.
C22_Witness ==
    \E w, v \in WorkerIds :
        /\ delegated[w] = "returned" /\ wkPc[w] = "done"
        /\ delegated[v] = "returned" /\ wkPc[v] = "attempt"
        /\ attempts[v] = <<>> /\ v \in worker_tasks

\* ------------------------------------------------------------------------
\* Agent registry: properties
\* ------------------------------------------------------------------------

\* The step is the return of a shutdown_all call.
ShutdownReturns == sdPc # "returned" /\ sdPc' = "returned"

\* C23: when shutdown_all returns, the workers map and the experts map
\* are empty, every worker task registered when it was called has ended
\* and every expert registered then is stopped; a call that finds both
\* maps empty changes nothing.
C23_ShutdownAllEmpties ==
    /\ [][ShutdownReturns =>
            /\ workers' = {}
            /\ experts' = {}
            /\ \A t \in sdCalled'.workers : rgTask'[t] = "done"
            /\ \A e \in sdCalled'.experts : exTask'[e] = "stopped"]_vars
    /\ [][(sdPc = "returned" /\ sdCalled'.calls > sdCalled.calls
                             /\ workers = {} /\ experts = {})
            => /\ sdPc' = "returned"
               /\ UNCHANGED <<workers, experts, rgTask, exTask>>]_vars

\* C36: once the shutdown sequence (shutdown_all, then the scheduler's
\* stop, then the kernel's stop) has finished, no registered worker or fire
\* task is running uncancelled and no expert's platform task is running,
\* whatever was registered while the sequence ran.
C36_NothingRunsAfterShutdown ==
    sdPc = "finished" =>
        /\ \A t \in TaskIds : rgTask[t] # "running"
        /\ \A e \in ExpertNames : exTask[e] \in {"unborn", "stopped"}

\* What C36 asks of the tasks that were registered when shutdown_all was
\* called.
RegisteredAtShutdownEnded ==
    sdPc = "finished" =>
        /\ \A t \in sdCalled.workers : rgTask[t] = "done"
        /\ \A e \in sdCalled.experts : exTask[e] = "stopped"

\* C37: the workers map holds, under the task id it was registered with,
\* every registered task that is running, and holds no task that is done.
C37_MapTracksLiveTasks ==
    /\ \A t \in TaskIds :
          rgTask[t] = "running" => <<rgKey[t], t>> \in workers
    /\ \A t \in TrackedTasks : rgTask[t] # "done"

\* The second half alone: no task whose callback has run is in the map.
NoDoneTaskTracked == \A t \in TrackedTasks : rgTask[t] # "done"

\* ------------------------------------------------------------------------
\* Escalation bus: properties
\* ------------------------------------------------------------------------

\* The resolve_escalation calls that returned true for the request of a.
AcceptedFor(a) ==
    {k \in 1..Len(esc_log) : esc_log[k].id = ask[a].id /\ esc_log[k].ret}

\* Those of them that were made before the timeout of a's wait fired.
AnsweredInTime(a) == {k \in AcceptedFor(a) : ~esc_log[k].late}

\* What ask_manager is to return: the answer given in time, else the
\* fallback string.
DueAnswer(a) ==
    IF AnsweredInTime(a) # {}
    THEN esc_log[CHOOSE k \in AnsweredInTime(a) : TRUE].answer
    ELSE NoAnswerFallback

\* C24: every ask_manager call that was made eventually returns, and what
\* it returns is the answer resolve_escalation was given for its id before
\* the timeout, otherwise the fallback string; no call ends by raising.
C24_AskAlwaysReturns ==
    /\ \A a \in Askers :
          [](ask[a].pc # "idle" => <>(ask[a].pc = "returned"))
    /\ [](\A a \in Askers :
             /\ ask[a].pc # "raised"
             /\ ask[a].pc = "returned" => ask[a].result = DueAnswer(a))

\* One call has returned the answer it was given and the other has
\* returned the fallback string after its timeout.
C24_Witness ==
    /\ ask["w1"].pc = "returned" /\ ask["w1"].result \in EscalationAnswers
    /\ ask["w2"].pc = "returned" /\ ask["w2"].result = NoAnswerFallback
    /\ AcceptedFor("w2") = {}

\* A resolve_escalation step: the call it adds to the log.
ResolveStep == Len(esc_log') = Len(esc_log) + 1

\* C25: resolve_escalation returns true only for an id that was issued and
\* only once for it, and then the asker receives that answer; a call that
\* returns false changes neither the futures nor the pending requests; the
\* calls in flight have distinct ids, and a call changes no future but that
\* of its id.
C25_FirstResolveWins ==
    /\ [](\A k \in 1..Len(esc_log) :
             esc_log[k].ret =>
                /\ esc_log[k].id <= esc_counter
                /\ \A j \in 1..(k - 1) :
                      esc_log[j].id = esc_log[k].id => ~esc_log[j].ret)
    /\ [](\A a \in Askers :
             (ask[a].pc = "returned" /\ AcceptedFor(a) # {}) =>
                ask[a].result = esc_log[CHOOSE k \in AcceptedFor(a) : TRUE].answer)
    /\ [](\A a, b \in Askers :
             (a # b /\ ask[a].pc # "idle" /\ ask[b].pc # "idle") =>
                ask[a].id # ask[b].id)
    /\ [][ResolveStep =>
             LET e == esc_log'[Len(esc_log')] IN
               /\ \A i \in EscalationIds \ {e.id} :
                     esc_future'[i] = esc_future[i]
               /\ ~e.ret => /\ esc_future' = esc_future
                            /\ esc_pending' = esc_pending]_vars

\* The same without the delivery to the asker: what resolve_escalation
\* returns and changes.
ResolveContract ==
    /\ [](\A k \in 1..Len(esc_log) :
             esc_log[k].ret =>
                /\ esc_log[k].id <= esc_counter
                /\ \A j \in 1..(k - 1) :
                      esc_log[j].id = esc_log[k].id => ~esc_log[j].ret)
    /\ [][ResolveStep =>
             LET e == esc_log'[Len(esc_log')] IN
               /\ \A i \in EscalationIds \ {e.id} :
                     esc_future'[i] = esc_future[i]
               /\ ~e.ret => /\ esc_future' = esc_future
                            /\ esc_pending' = esc_pending]_vars

\* ------------------------------------------------------------------------
\* Kernel lifecycle: properties
\* ------------------------------------------------------------------------

RECURSIVE EventsOfCalls(_, _)
\* The events a sequence of calls is to emit on a kernel that is running or
\* not: a call that repeats the one before it emits nothing.
EventsOfCalls(calls, running) ==
    IF calls = <<>> THEN <<>>
    ELSE IF Head(calls) = "start"
         THEN IF running THEN EventsOfCalls(Tail(calls), TRUE)
              ELSE <<"system:start">> \o EventsOfCalls(Tail(calls), TRUE)
         ELSE IF running
              THEN <<"system:stop">> \o EventsOfCalls(Tail(calls), FALSE)
              ELSE EventsOfCalls(Tail(calls), FALSE)

\* C30: the system:start and system:stop events alternate and begin with
\* system:start, and once the calls made have returned the events are those
\* of the calls without the repeated ones: start(); start() has emitted one
\* system:start.
C30_StartStopAlternate ==
    /\ \A i \in 1..Len(kernel_events) :
          kernel_events[i] = IF i % 2 = 1 THEN "system:start" ELSE "system:stop"
    /\ kernelPc = "idle" => kernel_events = EventsOfCalls(kernel_calls, FALSE)
    /\ (kernelPc = "idle" /\ kernel_calls = <<"start", "start">>)
          => kernel_events = <<"system:start">>

\* Calls with a repeated start and a repeated stop have returned.
C30_Witness ==
    /\ kernelPc = "idle"
    /\ kernel_calls = <<"start", "start", "stop", "stop", "start">>
    /\ kernel_events = <<"system:start", "system:stop", "system:start">>

\* ------------------------------------------------------------------------
\* Security decisions: properties
\* ------------------------------------------------------------------------

\* The two implications a SecurityDecision is to satisfy.
WellFormedDecision(d) ==
    /\ d.requires_approval => ~d.allowed
    /\ d.remembered => d.user_response \in {"allow_always", "deny_always"}

\* C31: every decision check_and_approve returns, from the policy check or
\* from the approval flow, has requires_approval only with allowed = false
\* and remembered only with a user_response of allow_always or deny_always.
C31_DecisionsWellFormed ==
    \A k \in Callers :
        call[k].pc = "returned" => WellFormedDecision(call[k].decision)

\* The first implication alone, and the second for the decisions of the
\* approval flow.
DecisionsWellFormedButRemembered ==
    \A k \in Callers :
        call[k].pc = "returned" =>
            /\ call[k].decision.requires_approval => ~call[k].decision.allowed
            /\ call[k].req # 0 => WellFormedDecision(call[k].decision)

\* ------------------------------------------------------------------------
\* Virtual platform: properties
\* ------------------------------------------------------------------------

\* The chunks the handler yields for message n of a kind, with the error
\* chunk when it raises.
HandlerOutput(n, kind) ==
    [i \in 1..ChunkCount(kind) |-> <<n, i>>]
        \o (IF kind = "boom" THEN <<ErrorChunk(n)>> ELSE <<>>)

IsPrefix(s, t) == Len(s) <= Len(t) /\ \A i \in 1..Len(s) : s[i] = t[i]

\* C32: with send_message calls made one after the other, every call
\* returns chunks of its own message only, and once the handler has run to
\* its end for the message exactly the chunks it yielded, with the error
\* chunk last when it raised; a raising handler does not end the loop, and
\* the message a caller waits for is not lost while the loop runs.
C32_RepliesMatchMessages ==
    /\ \A k \in 1..Len(replies) :
          /\ replies[k].n = k
          /\ IsPrefix(replies[k].text, HandlerOutput(k, replies[k].kind))
          /\ k \in handled =>
                replies[k].text = HandlerOutput(k, replies[k].kind)
    /\ (send.pc = "waiting" /\ runPc = "getting")
          => (response_ready \/ input_queue # <<>>)

\* Three calls have returned on a loop that still runs, the second
\* with the chunk and the error of a raising handler, the third with the
\* two chunks of its own message.
C32_Witness ==
    /\ Len(replies) = 3
    /\ runPc = "getting"
    /\ replies[2].text = <<<<2, 1>>, ErrorChunk(2)>>
    /\ replies[3].text = <<<<3, 1>>, <<3, 2>>>>

\* C33: a send_message call made while the run loop is not running (no
\* task was created, or the loop has ended on the sentinel or by
\* cancellation) is not left waiting on the signal.
C33_NotRunningRaises ==
    ~(send.pc = "waiting" /\ send.loop \in {"none", "stopped", "cancelled"})

\* A call made after the loop has ended waits with nothing left to set
\* the signal.
SendBlocksForever ==
    /\ send.pc = "waiting"
    /\ send.loop \in {"stopped", "cancelled"}
    /\ runPc = send.loop
    /\ ~response_ready

\* ------------------------------------------------------------------------
\* Context composer: properties
\* ------------------------------------------------------------------------

\* The positions of the session messages in the composed context.
ComposedOthers ==
    {composed.messages[i].pos :
        i \in {j \in 1..Len(composed.messages) :
                 composed.messages[j].role = "other"}}

\* C34: the context compose returns for a session with a system prompt
\* starts with the system message; after it come the most recent session
\* messages, some number of them, in their order and without a gap; and
\* when a session message is included the token count is that of the
\* returned messages and within the budget.
C34_SystemThenRecentSuffix ==
    (composed.done /\ system_tokens > 0) =>
        LET out == composed.messages
            n == Len(session_messages)
            k == Len(out) - 1
        IN  /\ Len(out) >= 1
            /\ out[1].role = "system"
            /\ k <= n
            /\ \A i \in 1..k :
                  /\ out[i + 1].role = "other"
                  /\ out[i + 1].pos = n - k + i
            /\ k > 0 => /\ composed.token_count = TokenCounter(out)
                        /\ composed.token_count <= token_budget

\* A truncated context: a session that does not fit, of which the last
\* two messages were kept and an older one dropped.
C34_Witness ==
    /\ composed.done
    /\ system_tokens > 0
    /\ Len(session_messages) = 4
    /\ ComposedOthers = {3, 4}

\* ------------------------------------------------------------------------
\* Cancelled waits: properties
\* ------------------------------------------------------------------------

\* The request of a cancelled approval wait is as it was: registered, its
\* future pending.
ApprovalSurvivesCancel ==
    \A k \in Callers :
        (call[k].pc = "cancelled" /\ accepted[call[k].req] = <<>>) =>
            /\ call[k].req \in pending
            /\ future[call[k].req] = "pending"

\* The same for the request of a cancelled escalation wait.
EscalationSurvivesCancel ==
    \A a \in Askers :
        (ask[a].pc = "cancelled" /\ AcceptedFor(a) = {}) =>
            /\ ask[a].id \in esc_pending
            /\ esc_future[ask[a].id] = "pending"

\* C35: once the task awaiting an approval or an escalation has been
\* cancelled with no answer given, the request is still registered and its
\* future is not cancelled, and a resolve call made for it afterwards is
\* accepted.
C35_CancelledWaitStaysResolvable ==
    /\ ApprovalSurvivesCancel
    /\ EscalationSurvivesCancel
    /\ \A a \in Askers :
          (ask[a].pc = "cancelled" /\ \E i \in 1..Len(esc_log) : esc_log[i].id = ask[a].id)
             => esc_future[ask[a].id] \in EscalationAnswers

\* An escalation answered after its asker was cancelled.
EscalationResolvedAfterCancel ==
    ask["w1"].pc = "cancelled" /\ esc_future[ask["w1"].id] \in EscalationAnswers

\* ------------------------------------------------------------------------
\* Scheduler in-flight guard: properties
\* ------------------------------------------------------------------------

\* C38: every job id that is in the in-flight set is removed from it
\* later, whether its fire ran to its end, was cancelled, or its completion
\* event or store call raised.
C38_InFlightReleased ==
    \A j \in JobIds : (j \in in_flight) ~> (j \notin in_flight)

\* A fire has ended without its discard: the job id stays in the set with
\* no task left to remove it.
InFlightLeaked ==
    \E i \in 1..Len(fires) :
        /\ fires[i].pc \in {"cancelled", "raised"}
        /\ fires[i].job \in in_flight
        /\ \A k \in 1..Len(fires) :
              fires[k].job = fires[i].job => fires[k].pc \notin GuardedPcs


\* ------------------------------------------------------------------------
\* Excluded skills
\* ------------------------------------------------------------------------

\* The tools a skill named in excluded_skills owns.
ExcludedTools == { t \in ToolNames : ToolToSkill(t) \in excluded_skills }

\* C39: an agent configured with excluded_skills never executes a tool owned
\* by an excluded skill, even when the LLM returns a tool call naming it:
\* whenever the agent's execute_tool call is activating or executing a
\* skill, the tool is not one an excluded skill owns.
C39_ExcludedNeverExecuted ==
    skCall["main"].pc \in {"activating", "executing"}
        => skCall["main"].tool \notin ExcludedTools

\* The exclusion does hold for what is offered: no generate call of the loop
\* passes the spec of an excluded skill's tool to the LLM.
ExcludedNeverOffered ==
    \A i \in 1..Len(llmCalls) : llmCalls[i].tools \cap ExcludedTools = {}

\* A tool of an excluded skill is executing although it was never offered.
ExcludedToolExecuting ==
    /\ ExcludedNeverOffered
    /\ skCall["main"].pc = "executing"
    /\ skCall["main"].tool \in ExcludedTools

\* ------------------------------------------------------------------------
\* Tool routing
\* ------------------------------------------------------------------------

\* manifest.tools of the registered skill of that name.
ManifestOf(skill) ==
    skills[CHOOSE i \in 1..Len(skills) : skills[i].name = skill].tools

\* The skills whose manifest declares a tool of that name.
DeclaringSkills(name) ==
    { skills[i].name : i \in { j \in 1..Len(skills) : HasTool(skills[j].tools, name) } }

\* C40: the capabilities checked by the security engine for a tool call are
\* those declared by the skill that executes it: when a call has been
\* executed, the skill _tool_to_skill routed it to declares the tool, and
\* with the capabilities check_and_approve was given.
C40_CheckedCapsOfExecutor ==
    tcall.pc = "executed" /\ tcall.executor # NoSkill
        => /\ HasTool(ManifestOf(tcall.executor), tcall.name)
           /\ FirstSpec(ManifestOf(tcall.executor), tcall.name).caps = tcall.checked

\* With one declaring skill, the one the name is routed to, the checked
\* capabilities are the executor's.
SoleOwnerChecked ==
    /\ tcall.pc = "executed"
    /\ DeclaringSkills(tcall.name) = {tool_to_skill[tcall.name]}
    => FirstSpec(ManifestOf(tcall.executor), tcall.name).caps = tcall.checked

\* Two skills declare read_file; the call was checked against a spec with
\* no required capabilities and executed by the skill that declares
\* file:read and file:write for it.
UncheckedCapsExecuted ==
    /\ tcall.pc = "executed"
    /\ Cardinality(DeclaringSkills(tcall.name)) = 2
    /\ tcall.checked = {}
    /\ FirstSpec(ManifestOf(tcall.executor), tcall.name).caps
           = {"file:read", "file:write"}
====
